---- MODULE Spec2Model ----
(***************************************************************************)
(* Model of the scripts of recipe-aligner: the merge / removal engine     *)
(* (merge_diff.py, remove_diff.py), the validator (validate_diff.py), the  *)
(* clusterers (generate_equivalences.py, build_equivalences.py), the       *)
(* matchers (ingredient_db.py, assist_ingestion.py) and the interactive    *)
(* flows (update_equivalences.py, build_equivalences.py,                   *)
(* link_ingredients.py).  Each group of scripts has its own specification  *)
(* over the same variables: master is the corpus file, files the other     *)
(* files, result what the last call returned or reported, local the memory *)
(* of the invocations that are running.                                    *)
(*                                                                         *)
(* The corpus ("master") is a record of four sequences of rows.  A diff is *)
(* a record of four sequences of items that refer to recipes and           *)
(* ingredients by slug.  JSON values are modelled as strings; a key that   *)
(* is missing from a JSON object is the marker Absent and JSON null is the *)
(* marker Null, so that Python's dict.get(key, default), `x or ""` and     *)
(* equality on None / "" / text are computed as the code computes them.    *)
(* An optional integer field of a diff item (a recipe_id / ingredient_id   *)
(* key that a diff item may carry) is <<>> when the key is missing and     *)
(* <<n>> when it is present with value n.                                  *)
(*                                                                         *)
(* Fields that merge only copies from the diff item to the stored row and  *)
(* that no branch reads (language, source, amount_value, amount_unit,      *)
(* notes, source_citation, source_span, added_at, added_by) are left out   *)
(* of the rows; label stands for the copied payload of recipes and         *)
(* ingredients.  Texts that a script inspects character by character     *)
(* (labels given to the validator, the clusterers and the matchers) are    *)
(* sequences of code points.                                               *)
(***************************************************************************)
EXTENDS Integers, Sequences, FiniteSets, TLC

VARIABLES master, before, diff, op, exit, ops, result, local, files

vars == <<master, before, diff, op, exit, ops, result, local, files>>

(***************************************************************************)
(* Bounds of the model.                                                    *)
(***************************************************************************)
\* number of merge / remove_diff invocations explored in one run
MaxOps == 4
\* the same, in the runs over entries
MaxEntryOps == 3

Absent == "<absent>"
Null == "<null>"

EmptyCorpus == [recipes |-> <<>>, ingredients |-> <<>>, aliases |-> <<>>, entries |-> <<>>]

NoDiff == [recipes |-> <<>>, ingredients |-> <<>>, aliases |-> <<>>, entries |-> <<>>]

\* nothing returned or reported yet
NoResult == "<none>"

\* no invocation holds an in-memory copy
NoLocal == <<>>

\* a file that does not exist
NoFile == [exists |-> FALSE, content |-> <<>>]

\* the files besides the corpus: docs/equivalences.json, data/equivalences.json,
\* the diff file and its .backup; none of them exists
NoFiles ==
    [docs_equivalences |-> NoFile, data_equivalences |-> NoFile, diff |-> NoFile,
     backup |-> NoFile]

(***************************************************************************)
(* Python helpers.                                                         *)
(***************************************************************************)
SetMax(S) == CHOOSE x \in S : \A y \in S : y <= x

\* dict.get(key, default) on a field that may be missing
Get(v, default) == IF v = Absent THEN default ELSE v

\* dict.get(key): a missing key reads as None
GetNone(v) == Get(v, Null)

\* Python's `x or ""`: None and "" are falsy
OrEmpty(v) == IF v = Null \/ v = "" THEN "" ELSE v

\* mutant: an id is skipped
next_id_Skip(arr, key) ==
    IF arr = <<>> THEN 1 ELSE SetMax({arr[k][key] : k \in DOMAIN arr}) + 2

\* max([x.get(key,0) for x in arr]) + 1 if arr else 1
next_id(arr, key) ==
    IF arr = <<>> THEN 1 ELSE SetMax({arr[k][key] : k \in DOMAIN arr}) + 1

LastIndexOf(arr, key, v) == SetMax({k \in DOMAIN arr : arr[k][key] = v})

\* {x[key]: x for x in arr}: a later row of the same key replaces an earlier one
idx_by(arr, key) ==
    [v \in {arr[k][key] : k \in DOMAIN arr} |-> arr[LastIndexOf(arr, key, v)]]

\* d[k] = row
DictPut(d, k, row) == [x \in DOMAIN d \cup {k} |-> IF x = k THEN row ELSE d[x]]

(***************************************************************************)
(* merge, step 1: recipes.  st = [rows, by, err]: master["recipes"],       *)
(* recipes_by_slug, and whether a KeyError has been raised.                *)
(***************************************************************************)
\* {"recipe_id": new_id, **r}: a recipe_id key of the diff item replaces new_id
NewRecipe(new_id, r) ==
    [recipe_id |-> IF r.recipe_id = <<>> THEN new_id ELSE r.recipe_id[1],
     slug |-> r.slug, label |-> r.label]

\* mutant: recipes_by_slug is not updated with the row just added
RecipeStep_NoIndexUpdate(st, r) ==
    IF r.slug = Absent THEN [st EXCEPT !.err = TRUE]
    ELSE IF r.slug \notin DOMAIN st.by
    THEN LET new == NewRecipe(next_id(st.rows, "recipe_id"), r)
         IN  [rows |-> Append(st.rows, new), by |-> st.by, err |-> (r.label = Absent)]
    ELSE st

RecipeStep(st, r) ==
    IF r.slug = Absent THEN [st EXCEPT !.err = TRUE]
    ELSE IF r.slug \notin DOMAIN st.by
    THEN LET new == NewRecipe(next_id(st.rows, "recipe_id"), r)
         IN  [rows |-> Append(st.rows, new),
              by |-> DictPut(st.by, new.slug, new),
              \* the report line reads r['label']
              err |-> (r.label = Absent)]
    ELSE st

RECURSIVE ProcessRecipes(_, _)
ProcessRecipes(st, items) ==
    IF items = <<>> \/ st.err THEN st
    ELSE ProcessRecipes(RecipeStep(st, Head(items)), Tail(items))

(***************************************************************************)
(* merge, step 2: ingredients.                                             *)
(***************************************************************************)
NewIngredient(new_id, ing) ==
    [ingredient_id |-> IF ing.ingredient_id = <<>> THEN new_id ELSE ing.ingredient_id[1],
     slug |-> ing.slug, label |-> ing.label]

\* mutant: a known slug takes the label of the diff item
IngredientStep_Overwrite(st, ing) ==
    IF ing.slug = Absent THEN [st EXCEPT !.err = TRUE]
    ELSE IF ing.slug \in DOMAIN st.by
    THEN [rows |-> [k \in DOMAIN st.rows |->
                       IF st.rows[k].slug = ing.slug
                       THEN [st.rows[k] EXCEPT !.label = ing.label] ELSE st.rows[k]],
          by |-> [st.by EXCEPT ![ing.slug].label = ing.label],
          err |-> (ing.label = Absent \/ st.by[ing.slug].label = Absent)]
    ELSE LET new == NewIngredient(next_id(st.rows, "ingredient_id"), ing)
         IN  [rows |-> Append(st.rows, new),
              by |-> DictPut(st.by, new.slug, new),
              err |-> (ing.label = Absent)]

\* mutant: ingredients_by_slug is not updated with the row just added
IngredientStep_NoIndexUpdate(st, ing) ==
    IF ing.slug = Absent THEN [st EXCEPT !.err = TRUE]
    ELSE IF ing.slug \in DOMAIN st.by
    THEN [st EXCEPT !.err = (ing.label = Absent \/ st.by[ing.slug].label = Absent)]
    ELSE LET new == NewIngredient(next_id(st.rows, "ingredient_id"), ing)
         IN  [rows |-> Append(st.rows, new), by |-> st.by, err |-> (ing.label = Absent)]

IngredientStep(st, ing) ==
    IF ing.slug = Absent THEN [st EXCEPT !.err = TRUE]
    ELSE IF ing.slug \in DOMAIN st.by
    THEN \* existing["label"] != ing["label"] reads both labels
         [st EXCEPT !.err = (ing.label = Absent \/ st.by[ing.slug].label = Absent)]
    ELSE LET new == NewIngredient(next_id(st.rows, "ingredient_id"), ing)
         IN  [rows |-> Append(st.rows, new),
              by |-> DictPut(st.by, new.slug, new),
              err |-> (ing.label = Absent)]

RECURSIVE ProcessIngredients(_, _)
ProcessIngredients(st, items) ==
    IF items = <<>> \/ st.err THEN st
    ELSE ProcessIngredients(IngredientStep(st, Head(items)), Tail(items))

(***************************************************************************)
(* merge, step 3: aliases.  st = [rows, seen, err].                        *)
(***************************************************************************)
\* seen_alias = {(a["ingredient_id"], a["variant_label"]) for a in master["aliases"]}
SeenAlias(aliases) ==
    {<<aliases[k].ingredient_id, aliases[k].variant_label>> : k \in DOMAIN aliases}

AliasKey(ing, a) == <<ing.ingredient_id, a.variant_label>>

\* mutant: seen_alias is not updated with the key just inserted
AliasStep_NoSeenUpdate(st, ingredients_by_slug, a) ==
    IF a.ingredient_slug = Absent THEN [st EXCEPT !.err = TRUE]
    ELSE IF a.ingredient_slug \notin DOMAIN ingredients_by_slug
    THEN st
    ELSE LET ing == ingredients_by_slug[a.ingredient_slug]
         IN  IF a.variant_label = Absent THEN [st EXCEPT !.err = TRUE]
             ELSE IF AliasKey(ing, a) \in st.seen THEN st
             ELSE [rows |-> Append(st.rows,
                                   [alias_id |-> next_id(st.rows, "alias_id"),
                                    ingredient_id |-> ing.ingredient_id,
                                    variant_label |-> a.variant_label]),
                   seen |-> st.seen,
                   err |-> FALSE]

AliasStep(st, ingredients_by_slug, a) ==
    IF a.ingredient_slug = Absent THEN [st EXCEPT !.err = TRUE]
    ELSE IF a.ingredient_slug \notin DOMAIN ingredients_by_slug
    THEN st   \* unknown ingredient_slug: the alias is skipped
    ELSE LET ing == ingredients_by_slug[a.ingredient_slug]
         IN  IF a.variant_label = Absent THEN [st EXCEPT !.err = TRUE]
             ELSE IF AliasKey(ing, a) \in st.seen THEN st
             ELSE [rows |-> Append(st.rows,
                                   [alias_id |-> next_id(st.rows, "alias_id"),
                                    ingredient_id |-> ing.ingredient_id,
                                    variant_label |-> a.variant_label]),
                   seen |-> st.seen \cup {AliasKey(ing, a)},
                   err |-> FALSE]

RECURSIVE ProcessAliases(_, _, _)
ProcessAliases(st, ingredients_by_slug, items) ==
    IF items = <<>> \/ st.err THEN st
    ELSE ProcessAliases(AliasStep(st, ingredients_by_slug, Head(items)),
                        ingredients_by_slug, Tail(items))

(***************************************************************************)
(* merge, step 4: entries.  st = [rows, seen, err].                        *)
(***************************************************************************)
\* (e["recipe_id"], e["ingredient_id"], e.get("amount_raw",""), e.get("preparation","") or "")
StoredEntryKey(e) ==
    <<e.recipe_id, e.ingredient_id, Get(e.amount_raw, ""), OrEmpty(Get(e.preparation, ""))>>

SeenEntry(entries) == {StoredEntryKey(entries[k]) : k \in DOMAIN entries}

\* mutant: the preparation is left out of the key of a diff entry
DiffEntryKey_NoPreparation(r, i, e) ==
    <<r.recipe_id, i.ingredient_id, Get(e.amount_raw, ""), "">>

\* tup = (r["recipe_id"], i["ingredient_id"], e.get("amount_raw",""), e.get("preparation","") or "")
DiffEntryKey(r, i, e) ==
    <<r.recipe_id, i.ingredient_id, Get(e.amount_raw, ""), OrEmpty(Get(e.preparation, ""))>>

NewEntry(new_id, r, i, e) ==
    [entry_id |-> new_id,
     recipe_id |-> r.recipe_id,
     ingredient_id |-> i.ingredient_id,
     amount_raw |-> GetNone(e.amount_raw),
     preparation |-> GetNone(e.preparation)]

\* mutant: recipes_by_slug[...] instead of .get(...): an unknown recipe_slug raises
EntryStep_UnknownRaises(st, recipes_by_slug, ingredients_by_slug, e) ==
    IF e.recipe_slug = Absent \/ e.ingredient_slug = Absent THEN [st EXCEPT !.err = TRUE]
    ELSE IF e.recipe_slug \notin DOMAIN recipes_by_slug THEN [st EXCEPT !.err = TRUE]
    ELSE IF e.ingredient_slug \notin DOMAIN ingredients_by_slug THEN st
    ELSE LET r == recipes_by_slug[e.recipe_slug]
             i == ingredients_by_slug[e.ingredient_slug]
             tup == DiffEntryKey(r, i, e)
         IN  IF tup \in st.seen THEN st
             ELSE [rows |-> Append(st.rows, NewEntry(next_id(st.rows, "entry_id"), r, i, e)),
                   seen |-> st.seen \cup {tup},
                   err |-> FALSE]

EntryStep(st, recipes_by_slug, ingredients_by_slug, e) ==
    IF e.recipe_slug = Absent \/ e.ingredient_slug = Absent THEN [st EXCEPT !.err = TRUE]
    ELSE IF e.recipe_slug \notin DOMAIN recipes_by_slug THEN st
    ELSE IF e.ingredient_slug \notin DOMAIN ingredients_by_slug THEN st
    ELSE LET r == recipes_by_slug[e.recipe_slug]
             i == ingredients_by_slug[e.ingredient_slug]
             tup == DiffEntryKey(r, i, e)
         IN  IF tup \in st.seen THEN st
             ELSE [rows |-> Append(st.rows, NewEntry(next_id(st.rows, "entry_id"), r, i, e)),
                   seen |-> st.seen \cup {tup},
                   err |-> FALSE]

RECURSIVE ProcessEntries(_, _, _, _)
ProcessEntries(st, recipes_by_slug, ingredients_by_slug, items) ==
    IF items = <<>> \/ st.err THEN st
    ELSE ProcessEntries(EntryStep(st, recipes_by_slug, ingredients_by_slug, Head(items)),
                        recipes_by_slug, ingredients_by_slug, Tail(items))

(***************************************************************************)
(* merge(master_path, diff_path): the corpus that would be saved, and      *)
(* whether an exception left the file untouched.                           *)
(***************************************************************************)
merge(m, d) ==
    LET rs == ProcessRecipes([rows |-> m.recipes, by |-> idx_by(m.recipes, "slug"),
                              err |-> FALSE], d.recipes)
        is == IF rs.err THEN [rows |-> m.ingredients, by |-> <<>>, err |-> TRUE]
              ELSE ProcessIngredients([rows |-> m.ingredients,
                                       by |-> idx_by(m.ingredients, "slug"),
                                       err |-> FALSE], d.ingredients)
        as == IF is.err THEN [rows |-> m.aliases, seen |-> {}, err |-> TRUE]
              ELSE ProcessAliases([rows |-> m.aliases, seen |-> SeenAlias(m.aliases),
                                   err |-> FALSE], is.by, d.aliases)
        es == IF as.err THEN [rows |-> m.entries, seen |-> {}, err |-> TRUE]
              ELSE ProcessEntries([rows |-> m.entries, seen |-> SeenEntry(m.entries),
                                   err |-> FALSE], rs.by, is.by, d.entries)
    IN  [master |-> [recipes |-> rs.rows, ingredients |-> is.rows,
                     aliases |-> as.rows, entries |-> es.rows],
         raised |-> es.err]

(***************************************************************************)
(* remove_diff, step 1: entries.  An outcome is "match", "nomatch" or      *)
(* "error" (a KeyError on a diff item lacking the key that is read).       *)
(***************************************************************************)
\* next((x for x in rows if x[key] == v), None): index of the first such row, 0 for None
FirstWith(rows, key, v) ==
    IF \E k \in DOMAIN rows : rows[k][key] = v
    THEN CHOOSE k \in DOMAIN rows :
             /\ rows[k][key] = v
             /\ \A j \in DOMAIN rows : rows[j][key] = v => k <= j
    ELSE 0

\* mutant: the preparation is not compared
EntryMatches_NoPreparation(entry, recipe, ingredient, de) ==
    IF de.recipe_slug = Absent THEN "error"
    ELSE IF recipe.slug # de.recipe_slug THEN "nomatch"
    ELSE IF de.ingredient_slug = Absent THEN "error"
    ELSE IF /\ ingredient.slug = de.ingredient_slug
            /\ OrEmpty(GetNone(entry.amount_raw)) = OrEmpty(GetNone(de.amount_raw))
         THEN "match"
         ELSE "nomatch"

\* the condition of lines 55-58, evaluated left to right
EntryMatches(entry, recipe, ingredient, de) ==
    IF de.recipe_slug = Absent THEN "error"
    ELSE IF recipe.slug # de.recipe_slug THEN "nomatch"
    ELSE IF de.ingredient_slug = Absent THEN "error"
    ELSE IF /\ ingredient.slug = de.ingredient_slug
            /\ OrEmpty(GetNone(entry.amount_raw)) = OrEmpty(GetNone(de.amount_raw))
            /\ OrEmpty(GetNone(entry.preparation)) = OrEmpty(GetNone(de.preparation))
         THEN "match"
         ELSE "nomatch"

RECURSIVE EntryShouldRemove(_, _, _, _)
EntryShouldRemove(entry, recipe, ingredient, des) ==
    IF des = <<>> THEN "nomatch"
    ELSE LET res == EntryMatches(entry, recipe, ingredient, Head(des))
         IN  IF res = "nomatch"
             THEN EntryShouldRemove(entry, recipe, ingredient, Tail(des))
             ELSE res

\* st = [rows, err]: the rebuilt master["entries"]
RemoveEntryStep(st, m, d, entry) ==
    LET ri == FirstWith(m.recipes, "recipe_id", entry.recipe_id)
        ii == FirstWith(m.ingredients, "ingredient_id", entry.ingredient_id)
    IN  IF ri = 0 \/ ii = 0 THEN [st EXCEPT !.rows = Append(st.rows, entry)]
        ELSE LET res == EntryShouldRemove(entry, m.recipes[ri], m.ingredients[ii], d.entries)
             IN  IF res = "error" THEN [st EXCEPT !.err = TRUE]
                 ELSE IF res = "match" THEN st
                 ELSE [st EXCEPT !.rows = Append(st.rows, entry)]

RECURSIVE RemoveEntries(_, _, _, _)
RemoveEntries(st, m, d, original_entries) ==
    IF original_entries = <<>> \/ st.err THEN st
    ELSE RemoveEntries(RemoveEntryStep(st, m, d, Head(original_entries)), m, d,
                       Tail(original_entries))

(***************************************************************************)
(* remove_diff, step 2: aliases.                                           *)
(***************************************************************************)
AliasMatches(alias, ingredient, da) ==
    IF da.ingredient_slug = Absent THEN "error"
    ELSE IF ingredient.slug # da.ingredient_slug THEN "nomatch"
    ELSE IF da.variant_label = Absent THEN "error"
    ELSE IF alias.variant_label = da.variant_label THEN "match"
    ELSE "nomatch"

RECURSIVE AliasShouldRemove(_, _, _)
AliasShouldRemove(alias, ingredient, das) ==
    IF das = <<>> THEN "nomatch"
    ELSE LET res == AliasMatches(alias, ingredient, Head(das))
         IN  IF res = "nomatch" THEN AliasShouldRemove(alias, ingredient, Tail(das))
             ELSE res

RemoveAliasStep(st, m, d, alias) ==
    LET ii == FirstWith(m.ingredients, "ingredient_id", alias.ingredient_id)
    IN  IF ii = 0 THEN [st EXCEPT !.rows = Append(st.rows, alias)]
        ELSE LET res == AliasShouldRemove(alias, m.ingredients[ii], d.aliases)
             IN  IF res = "error" THEN [st EXCEPT !.err = TRUE]
                 ELSE IF res = "match" THEN st
                 ELSE [st EXCEPT !.rows = Append(st.rows, alias)]

RECURSIVE RemoveAliases(_, _, _, _)
RemoveAliases(st, m, d, original_aliases) ==
    IF original_aliases = <<>> \/ st.err THEN st
    ELSE RemoveAliases(RemoveAliasStep(st, m, d, Head(original_aliases)), m, d,
                       Tail(original_aliases))

(***************************************************************************)
(* remove_diff, steps 3 and 4: ingredients and recipes no longer in use.   *)
(***************************************************************************)
\* mutant: the aliases are not counted as uses of an ingredient
IngredientIdsInUse_EntriesOnly(entries, aliases) ==
    {entries[k].ingredient_id : k \in DOMAIN entries}

\* ingredient_ids_in_use: ids referenced by the entries and aliases left by steps 1-2
IngredientIdsInUse(entries, aliases) ==
    {entries[k].ingredient_id : k \in DOMAIN entries}
        \cup {aliases[k].ingredient_id : k \in DOMAIN aliases}

\* recipe_ids_in_use = {entry["recipe_id"] for entry in master["entries"]}
RecipeIdsInUse(entries) == {entries[k].recipe_id : k \in DOMAIN entries}

\* mutant: a row named in the diff is removed whether or not it is in use
RECURSIVE NamedShouldRemove_IgnoreUse(_, _, _)
NamedShouldRemove_IgnoreUse(row, unused, items) ==
    IF items = <<>> THEN "nomatch"
    ELSE IF Head(items).slug = Absent THEN "error"
    ELSE IF row.slug = Head(items).slug THEN "match"
    ELSE NamedShouldRemove_IgnoreUse(row, unused, Tail(items))

\* the loop of lines 110-114 / 131-135 over the diff's items naming `row`
RECURSIVE NamedShouldRemove(_, _, _)
NamedShouldRemove(row, unused, items) ==
    IF items = <<>> THEN "nomatch"
    ELSE IF Head(items).slug = Absent THEN "error"
    ELSE IF row.slug = Head(items).slug /\ unused THEN "match"
    ELSE NamedShouldRemove(row, unused, Tail(items))

\* mutant: orphan sweep, a row that nothing refers to is removed whether or not the
\* diff names it
RemoveNamedStep_OrphanSweep(st, row, unused, items) ==
    LET res == NamedShouldRemove(row, unused, items)
    IN  IF res = "error" THEN [st EXCEPT !.err = TRUE]
        ELSE IF res = "match" \/ unused THEN st
        ELSE [st EXCEPT !.rows = Append(st.rows, row)]

RemoveNamedStep(st, row, unused, items) ==
    LET res == NamedShouldRemove(row, unused, items)
    IN  IF res = "error" THEN [st EXCEPT !.err = TRUE]
        ELSE IF res = "match" THEN st
        ELSE [st EXCEPT !.rows = Append(st.rows, row)]

RECURSIVE RemoveIngredients(_, _, _, _)
RemoveIngredients(st, in_use, items, original_ingredients) ==
    IF original_ingredients = <<>> \/ st.err THEN st
    ELSE LET ingredient == Head(original_ingredients)
         IN  RemoveIngredients(
                 RemoveNamedStep(st, ingredient, ingredient.ingredient_id \notin in_use, items),
                 in_use, items, Tail(original_ingredients))

RECURSIVE RemoveRecipes(_, _, _, _)
RemoveRecipes(st, in_use, items, original_recipes) ==
    IF original_recipes = <<>> \/ st.err THEN st
    ELSE LET recipe == Head(original_recipes)
         IN  RemoveRecipes(
                 RemoveNamedStep(st, recipe, recipe.recipe_id \notin in_use, items),
                 in_use, items, Tail(original_recipes))

(***************************************************************************)
(* remove_diff(master_path, diff_path): the corpus that would be saved,    *)
(* and whether an exception ended the run before save.                     *)
(***************************************************************************)
\* mutant: the rows in use are taken from the corpus as it was loaded
remove_diff_StaleUsage(m, d) ==
    LET start == [rows |-> <<>>, err |-> FALSE]
        failed == [rows |-> <<>>, err |-> TRUE]
        es == RemoveEntries(start, m, d, m.entries)
        as == IF es.err THEN failed ELSE RemoveAliases(start, m, d, m.aliases)
        is == IF as.err THEN failed
              ELSE RemoveIngredients(start, IngredientIdsInUse(m.entries, m.aliases),
                                     d.ingredients, m.ingredients)
        rs == IF is.err THEN failed
              ELSE RemoveRecipes(start, RecipeIdsInUse(m.entries), d.recipes, m.recipes)
    IN  [master |-> [recipes |-> rs.rows, ingredients |-> is.rows,
                     aliases |-> as.rows, entries |-> es.rows],
         raised |-> rs.err]

remove_diff(m, d) ==
    LET start == [rows |-> <<>>, err |-> FALSE]
        failed == [rows |-> <<>>, err |-> TRUE]
        es == RemoveEntries(start, m, d, m.entries)
        as == IF es.err THEN failed ELSE RemoveAliases(start, m, d, m.aliases)
        is == IF as.err THEN failed
              ELSE RemoveIngredients(start, IngredientIdsInUse(es.rows, as.rows),
                                     d.ingredients, m.ingredients)
        rs == IF is.err THEN failed
              ELSE RemoveRecipes(start, RecipeIdsInUse(es.rows), d.recipes, m.recipes)
    IN  [master |-> [recipes |-> rs.rows, ingredients |-> is.rows,
                     aliases |-> as.rows, entries |-> es.rows],
         raised |-> rs.err]

(***************************************************************************)
(* Diff items and the diffs the invocations are given.                     *)
(***************************************************************************)
RecipeItem(slug, label) == [slug |-> slug, label |-> label, recipe_id |-> <<>>]

RecipeItemWithId(slug, label, id) == [slug |-> slug, label |-> label, recipe_id |-> <<id>>]

IngredientItem(slug, label) == [slug |-> slug, label |-> label, ingredient_id |-> <<>>]

IngredientItemWithId(slug, label, id) ==
    [slug |-> slug, label |-> label, ingredient_id |-> <<id>>]

AliasItem(ingredient_slug, variant_label) ==
    [ingredient_slug |-> ingredient_slug, variant_label |-> variant_label]

EntryItem(recipe_slug, ingredient_slug, amount_raw, preparation) ==
    [recipe_slug |-> recipe_slug, ingredient_slug |-> ingredient_slug,
     amount_raw |-> amount_raw, preparation |-> preparation]

Diff(recipes, ingredients, aliases, entries) ==
    [recipes |-> recipes, ingredients |-> ingredients, aliases |-> aliases, entries |-> entries]

\* diffs that exercise slugs, labels, references and carried ids
DiffsStruct ==
    { \* a complete new recipe with its ingredient, alias and entry
      Diff(<<RecipeItem("kyphi-28", "Kyphi")>>, <<IngredientItem("myrrh", "Myrrh")>>,
           <<AliasItem("myrrh", "smyrna")>>,
           <<EntryItem("kyphi-28", "myrrh", "2 hin", Null)>>),
      Diff(<<RecipeItem("kyphi-9", "Kyphi")>>, <<IngredientItem("honey", "Honey")>>,
           <<AliasItem("honey", "meli")>>,
           <<EntryItem("kyphi-9", "honey", "2 hin", Null)>>),
      \* the same slug twice inside one diff, with different labels
      Diff(<<RecipeItem("kyphi-28", "Kyphi"), RecipeItem("kyphi-28", "Cyphi")>>,
           <<IngredientItem("myrrh", "Murra"), IngredientItem("myrrh", "Myrrh")>>,
           <<>>, <<>>),
      \* a known slug with another label, and an alias for it
      Diff(<<RecipeItem("kyphi-28", "Cyphi")>>, <<IngredientItem("myrrh", "Murra")>>,
           <<AliasItem("myrrh", "stakte")>>, <<>>),
      \* references to rows the diff does not define; one alias twice
      Diff(<<>>, <<>>, <<AliasItem("honey", "stakte"), AliasItem("honey", "stakte")>>,
           <<EntryItem("kyphi-28", "honey", "2 hin", Null)>>),
      \* unresolvable references next to resolvable ones
      Diff(<<>>, <<>>,
           <<AliasItem("unobtainium", "smyrna"), AliasItem("myrrh", "murr")>>,
           <<EntryItem("kyphi-0", "myrrh", "2 hin", Null),
             EntryItem("kyphi-28", "unobtainium", "2 hin", Null),
             EntryItem("kyphi-28", "myrrh", "1 hin", Null)>>),
      \* only the names of rows
      Diff(<<RecipeItem("kyphi-28", "Kyphi")>>, <<IngredientItem("myrrh", "Myrrh")>>,
           <<>>, <<>>),
      Diff(<<RecipeItem("kyphi-9", "Kyphi"), RecipeItem("kyphi-28", "Kyphi")>>,
           <<IngredientItem("honey", "Honey"), IngredientItem("myrrh", "Myrrh")>>,
           <<>>, <<>>),
      \* only an entry, only an alias
      Diff(<<>>, <<>>, <<>>, <<EntryItem("kyphi-28", "myrrh", "2 hin", Null)>>),
      Diff(<<>>, <<>>, <<AliasItem("myrrh", "smyrna")>>, <<>>),
      Diff(<<>>, <<>>, <<AliasItem("myrrh", "stakte")>>, <<>>),
      \* items that carry a recipe_id / ingredient_id key
      Diff(<<RecipeItemWithId("kyphi-9", "Kyphi", 1)>>,
           <<IngredientItemWithId("honey", "Honey", 1)>>,
           <<AliasItem("honey", "smyrna")>>,
           <<EntryItem("kyphi-9", "honey", "2 hin", Null)>>)
    }

(***************************************************************************)
(* The invocations.  master is the corpus file; before, diff and op record *)
(* the last invocation (the file it loaded, its diff, which script ran),   *)
(* exit its exit status, ops how many invocations have run.                *)
(***************************************************************************)
Start(m) ==
    /\ master = m
    /\ before = m
    /\ diff = NoDiff
    /\ op = "init"
    /\ exit = 0
    /\ ops = 0
    /\ result = NoResult
    /\ local = NoLocal
    /\ files = NoFiles

Init == Start(EmptyCorpus)

FileAfter_Always(current, res) == res.master

\* the corpus file after the invocation: save(master_path, master) is the last
\* statement, reached when no step has raised
FileAfter(current, res) == IF res.raised THEN current ELSE res.master

\* merge_diff.py: save(master_path, master) is reached only when nothing was raised
Merge(d) ==
    LET res == merge(master, d)
    IN  /\ ops' = ops + 1
        /\ before' = master
        /\ diff' = d
        /\ op' = "merge"
        /\ master' = FileAfter(master, res)
        /\ exit' = IF res.raised THEN 1 ELSE 0
        /\ UNCHANGED <<result, local, files>>

\* remove_diff.py
RemoveDiff(d) ==
    LET res == remove_diff(master, d)
    IN  /\ ops' = ops + 1
        /\ before' = master
        /\ diff' = d
        /\ op' = "remove"
        /\ master' = FileAfter(master, res)
        /\ exit' = IF res.raised THEN 1 ELSE 0
        /\ UNCHANGED <<result, local, files>>

Next ==
    \/ \E d \in DiffsStruct : ops < MaxOps /\ Merge(d)
    \/ \E d \in DiffsStruct : ops < MaxOps /\ RemoveDiff(d)

Spec == Init /\ [][Next]_vars

(***************************************************************************)
(* Runs over entries: the corpus holds two recipes and two ingredients     *)
(* (what merging SeedDiff into an empty corpus saves) and the diffs hold   *)
(* entries whose amount_raw / preparation are missing, null, "" or text.   *)
(***************************************************************************)
SeedDiff ==
    Diff(<<RecipeItem("kyphi-28", "Kyphi"), RecipeItem("kyphi-9", "Kyphi")>>,
         <<IngredientItem("honey", "Honey"), IngredientItem("myrrh", "Myrrh")>>,
         <<>>, <<>>)

Amounts == {Absent, Null, "", "2 hin"}

Preparations == {Absent, Null, "", "strained"}

EntriesDiff(entries) == Diff(<<>>, <<>>, <<>>, entries)

DiffsEntries ==
    {EntriesDiff(<<EntryItem("kyphi-28", "honey", a, p)>>) : a \in Amounts, p \in Preparations}
    \cup
    { EntriesDiff(<<EntryItem("kyphi-9", "honey", "2 hin", Null)>>),
      EntriesDiff(<<EntryItem("kyphi-28", "myrrh", "2 hin", Null)>>),
      EntriesDiff(<<EntryItem("kyphi-28", "honey", "2 hin", Null),
                    EntryItem("kyphi-28", "honey", "2 hin", "strained")>>),
      EntriesDiff(<<EntryItem("kyphi-28", "honey", "2 hin", Null),
                    EntryItem("kyphi-28", "honey", "2 hin", "")>>),
      EntriesDiff(<<EntryItem("kyphi-28", "honey", Null, Null),
                    EntryItem("kyphi-28", "honey", "", Null)>>),
      EntriesDiff(<<EntryItem("kyphi-28", "honey", Absent, Null),
                    EntryItem("kyphi-28", "honey", "", Null),
                    EntryItem("kyphi-28", "honey", "2 hin", Null)>>) }

InitEntries == Start(merge(EmptyCorpus, SeedDiff).master)

NextEntries ==
    \/ \E d \in DiffsEntries : ops < MaxEntryOps /\ Merge(d)
    \/ \E d \in DiffsEntries : ops < MaxEntryOps /\ RemoveDiff(d)

SpecEntries == InitEntries /\ [][NextEntries]_vars

(***************************************************************************)
(* Vocabulary of the properties.                                           *)
(***************************************************************************)
Range(seq) == {seq[k] : k \in DOMAIN seq}

FieldValues(seq, key) == {seq[k][key] : k \in DOMAIN seq}

IsPrefix(a, b) == Len(a) <= Len(b) /\ SubSeq(b, 1, Len(a)) = a

\* the rows an invocation appended to an entity set
Appended(old, new) == SubSeq(new, Len(old) + 1, Len(new))

Merged == op = "merge" /\ exit = 0

Removed == op = "remove" /\ exit = 0

(***************************************************************************)
(* C1.  Referential integrity: in every corpus reached by merge and        *)
(* remove_diff invocations, every alias's ingredient_id is the id of a     *)
(* live ingredient and every entry's recipe_id and ingredient_id are the   *)
(* ids of a live recipe and a live ingredient.                             *)
(***************************************************************************)
C1_ReferentialIntegrity ==
    /\ \A a \in Range(master.aliases) :
           a.ingredient_id \in FieldValues(master.ingredients, "ingredient_id")
    /\ \A e \in Range(master.entries) :
           /\ e.recipe_id \in FieldValues(master.recipes, "recipe_id")
           /\ e.ingredient_id \in FieldValues(master.ingredients, "ingredient_id")

\* a removal deleted an ingredient and a recipe while aliases and entries remain
C1_Witness ==
    /\ Removed
    /\ Len(master.ingredients) < Len(before.ingredients)
    /\ Len(master.recipes) < Len(before.recipes)
    /\ master.aliases # <<>>
    /\ master.entries # <<>>

(***************************************************************************)
(* C2.  Slug uniqueness: no two recipes of the corpus share a slug and no  *)
(* two ingredients share a slug, also after merging a diff that repeats a  *)
(* slug.                                                                   *)
(***************************************************************************)
UniqueBy(seq, key) ==
    \A j, k \in DOMAIN seq : seq[j][key] = seq[k][key] => j = k

\* C2: recipe slugs are unique and ingredient slugs are unique in every corpus reached
C2_SlugsUnique ==
    /\ UniqueBy(master.recipes, "slug")
    /\ UniqueBy(master.ingredients, "slug")

RepeatsNewSlug(items, old) ==
    \E j, k \in DOMAIN items :
        /\ j < k
        /\ items[j].slug = items[k].slug
        /\ items[j].slug \notin FieldValues(old, "slug")

\* a merge of a diff that names a new recipe slug and a new ingredient slug twice
C2_Witness ==
    /\ Merged
    /\ RepeatsNewSlug(diff.recipes, before.recipes)
    /\ RepeatsNewSlug(diff.ingredients, before.ingredients)

(***************************************************************************)
(* C3.  Merge is idempotent: when a diff has been merged and the same diff *)
(* is merged again into the saved result, the second merge leaves the      *)
(* corpus as the first one saved it.                                       *)
(***************************************************************************)
C3_MergeIdempotent ==
    [][(Merged /\ op' = "merge" /\ exit' = 0 /\ diff' = diff) => master' = master]_vars

(***************************************************************************)
(* C4.  Orphan-only deletion: a removal pass never raises for naming a row *)
(* that is in use; an ingredient named in the diff and still referenced by *)
(* a surviving entry or alias, and a recipe named in the diff and still    *)
(* referenced by a surviving entry, stays in the corpus with the same      *)
(* fields; so every surviving entry still has its recipe and ingredient.   *)
(***************************************************************************)
NamedIn(items, row) == \E k \in DOMAIN items : items[k].slug = row.slug

\* C4: a removal pass raises nothing and keeps every named row that is still in use
C4_OrphanOnlyDeletion ==
    op = "remove" =>
        /\ exit = 0
        /\ \A i \in Range(before.ingredients) :
               (/\ NamedIn(diff.ingredients, i)
                /\ i.ingredient_id \in FieldValues(master.entries, "ingredient_id")
                                           \cup FieldValues(master.aliases, "ingredient_id"))
               => i \in Range(master.ingredients)
        /\ \A r \in Range(before.recipes) :
               (/\ NamedIn(diff.recipes, r)
                /\ r.recipe_id \in FieldValues(master.entries, "recipe_id"))
               => r \in Range(master.recipes)
        /\ \A e \in Range(master.entries) :
               /\ \E r \in Range(master.recipes) : r.recipe_id = e.recipe_id
               /\ \E i \in Range(master.ingredients) : i.ingredient_id = e.ingredient_id

\* a removal named a recipe used by a surviving entry and an ingredient used by a
\* surviving alias, and deleted neither
C4_Witness ==
    /\ Removed
    /\ \E r \in Range(master.recipes) :
           /\ NamedIn(diff.recipes, r)
           /\ r.recipe_id \in FieldValues(master.entries, "recipe_id")
    /\ \E i \in Range(master.ingredients) :
           /\ NamedIn(diff.ingredients, i)
           /\ i.ingredient_id \in FieldValues(master.aliases, "ingredient_id")

(***************************************************************************)
(* C5.  Id monotonicity: every row that merge appends carries the id       *)
(* max(ids present just before the insertion) + 1, or 1 in an empty set.   *)
(***************************************************************************)
FreshIds(old, new, key) ==
    \A k \in (Len(old) + 1)..Len(new) :
        new[k][key] = IF k = 1 THEN 1
                      ELSE SetMax(FieldValues(SubSeq(new, 1, k - 1), key)) + 1

\* C5: every row appended by merge carries max(existing ids) + 1
C5_IdMonotonic ==
    Merged =>
        /\ FreshIds(before.recipes, master.recipes, "recipe_id")
        /\ FreshIds(before.ingredients, master.ingredients, "ingredient_id")
        /\ FreshIds(before.aliases, master.aliases, "alias_id")
        /\ FreshIds(before.entries, master.entries, "entry_id")

(***************************************************************************)
(* C6.  Per-item recovery: merge ends without raising; an alias or entry   *)
(* whose slug reference resolves to no row of corpus-plus-diff is not      *)
(* inserted, and every other alias / entry of the diff that is not a       *)
(* duplicate (by the dedup key, of a stored row or of an earlier item of   *)
(* the diff) is inserted with the ids its slugs resolve to.                *)
(***************************************************************************)
KnownSlugs(old, items) == FieldValues(old, "slug") \cup FieldValues(items, "slug")

IdOfSlug(rows, key, slug) == (CHOOSE r \in Range(rows) : r.slug = slug)[key]

ResolvedAliasKey(a) ==
    <<IdOfSlug(master.ingredients, "ingredient_id", a.ingredient_slug), a.variant_label>>

ResolvableAliases ==
    {k \in DOMAIN diff.aliases :
        diff.aliases[k].ingredient_slug \in KnownSlugs(before.ingredients, diff.ingredients)}

InsertableAliases ==
    {k \in ResolvableAliases :
        /\ \A a \in Range(before.aliases) :
               <<a.ingredient_id, a.variant_label>> # ResolvedAliasKey(diff.aliases[k])
        /\ \A j \in ResolvableAliases :
               j < k => ResolvedAliasKey(diff.aliases[j]) # ResolvedAliasKey(diff.aliases[k])}

ResolvedEntryKey(e) ==
    <<IdOfSlug(master.recipes, "recipe_id", e.recipe_slug),
      IdOfSlug(master.ingredients, "ingredient_id", e.ingredient_slug),
      IF e.amount_raw = Absent THEN "" ELSE e.amount_raw,
      IF e.preparation \in {Absent, Null} THEN "" ELSE e.preparation>>

RowEntryKey(e) ==
    <<e.recipe_id, e.ingredient_id, e.amount_raw,
      IF e.preparation = Null THEN "" ELSE e.preparation>>

ResolvableEntries ==
    {k \in DOMAIN diff.entries :
        /\ diff.entries[k].recipe_slug \in KnownSlugs(before.recipes, diff.recipes)
        /\ diff.entries[k].ingredient_slug \in KnownSlugs(before.ingredients, diff.ingredients)}

InsertableEntries ==
    {k \in ResolvableEntries :
        /\ \A e \in Range(before.entries) : RowEntryKey(e) # ResolvedEntryKey(diff.entries[k])
        /\ \A j \in ResolvableEntries :
               j < k => ResolvedEntryKey(diff.entries[j]) # ResolvedEntryKey(diff.entries[k])}

\* C6: merge exits 0 and appends exactly the resolvable, non-duplicate aliases and entries
C6_PerItemRecovery ==
    op = "merge" =>
        /\ exit = 0
        /\ Len(Appended(before.aliases, master.aliases)) = Cardinality(InsertableAliases)
        /\ \A k \in InsertableAliases :
               \E a \in Range(Appended(before.aliases, master.aliases)) :
                   <<a.ingredient_id, a.variant_label>> = ResolvedAliasKey(diff.aliases[k])
        /\ Len(Appended(before.entries, master.entries)) = Cardinality(InsertableEntries)
        /\ \A k \in InsertableEntries :
               \E e \in Range(Appended(before.entries, master.entries)) :
                   /\ RowEntryKey(e) = ResolvedEntryKey(diff.entries[k])
                   /\ e.amount_raw = GetNone(diff.entries[k].amount_raw)
                   /\ e.preparation = GetNone(diff.entries[k].preparation)

\* a merge dropped an unresolvable alias and two unresolvable entries (one for its
\* recipe_slug, one for its ingredient_slug) and inserted the alias and the entry
\* that follow them in the diff
C6_Witness ==
    /\ Merged
    /\ \E j, k \in DOMAIN diff.aliases :
           j < k /\ j \notin ResolvableAliases /\ k \in InsertableAliases
    /\ \E h, j, k \in DOMAIN diff.entries :
           /\ h < k /\ j < k /\ k \in InsertableEntries
           /\ diff.entries[h].recipe_slug \notin KnownSlugs(before.recipes, diff.recipes)
           /\ diff.entries[j].ingredient_slug
                  \notin KnownSlugs(before.ingredients, diff.ingredients)
    /\ Len(master.aliases) = Len(before.aliases) + 1
    /\ Len(master.entries) = Len(before.entries) + 1

(***************************************************************************)
(* C9.  First writer wins: the rows of the corpus before a merge are, in   *)
(* the same order and with the same fields, the first rows of the corpus   *)
(* after it; a diff item whose slug is known changes nothing of its row.   *)
(***************************************************************************)
C9_FirstWriterWins ==
    op = "merge" =>
        /\ IsPrefix(before.recipes, master.recipes)
        /\ IsPrefix(before.ingredients, master.ingredients)
        /\ IsPrefix(before.aliases, master.aliases)
        /\ IsPrefix(before.entries, master.entries)

LabelCollision(items, old) ==
    \E k \in DOMAIN items : \E row \in Range(old) :
        items[k].slug = row.slug /\ items[k].label # row.label

\* a merge of a diff that gives a known recipe slug and a known ingredient slug
\* another label
C9_Witness ==
    /\ Merged
    /\ LabelCollision(diff.recipes, before.recipes)
    /\ LabelCollision(diff.ingredients, before.ingredients)
    /\ master.aliases # before.aliases

(***************************************************************************)
(* C10.  Alias dedup: no two aliases of the corpus share (ingredient_id,   *)
(* variant_label); a merged alias whose ingredient_slug names an           *)
(* ingredient of the corpus is stored under that ingredient's id, and the  *)
(* corpus still holds exactly one ingredient row of that slug.             *)
(***************************************************************************)
C10_AliasDedup ==
    /\ \A j, k \in DOMAIN master.aliases :
           (/\ master.aliases[j].ingredient_id = master.aliases[k].ingredient_id
            /\ master.aliases[j].variant_label = master.aliases[k].variant_label)
           => j = k
    /\ Merged =>
           \A a \in Range(diff.aliases) : \A i \in Range(before.ingredients) :
               i.slug = a.ingredient_slug =>
                   /\ \E row \in Range(master.aliases) :
                          /\ row.ingredient_id = i.ingredient_id
                          /\ row.variant_label = a.variant_label
                   /\ Cardinality({k \in DOMAIN master.ingredients :
                                      master.ingredients[k].slug = i.slug}) = 1

\* a merge of a diff holding only an alias gave an ingredient that had one alias a
\* second one, and added no ingredient row
C10_Witness ==
    /\ Merged
    /\ diff.ingredients = <<>>
    /\ master.ingredients = before.ingredients
    /\ Len(master.aliases) = Len(before.aliases) + 1
    /\ \E i \in Range(before.ingredients) :
           /\ \E a \in Range(diff.aliases) : a.ingredient_slug = i.slug
           /\ Cardinality({k \in DOMAIN before.aliases :
                              before.aliases[k].ingredient_id = i.ingredient_id}) = 1
           /\ Cardinality({k \in DOMAIN master.aliases :
                              master.aliases[k].ingredient_id = i.ingredient_id}) = 2

(***************************************************************************)
(* C7.  Entry dedup.  As claimed (C7_ExactMatchDedup): two entries of the  *)
(* same recipe and ingredient, both in the diff or one stored and one in   *)
(* the diff, whose amount_raw or preparation values differ (null and ""    *)
(* being different values) each have a row with exactly their values after *)
(* the merge.  As amended (C7_DedupByKey): the dedup key reads a missing   *)
(* amount_raw as "" and a missing, null or empty preparation as ""; a diff *)
(* entry whose key differs from the key of every stored row and of every   *)
(* earlier entry of the diff is never skipped: merge appends a row with    *)
(* its values, and the rows stored before stay.                            *)
(***************************************************************************)
HasValues(e) == e.amount_raw # Absent /\ e.preparation # Absent

SameSlugs(x, y) == x.recipe_slug = y.recipe_slug /\ x.ingredient_slug = y.ingredient_slug

RowOf(e) ==
    [recipe_id |-> IdOfSlug(master.recipes, "recipe_id", e.recipe_slug),
     ingredient_id |-> IdOfSlug(master.ingredients, "ingredient_id", e.ingredient_slug),
     amount_raw |-> GetNone(e.amount_raw),
     preparation |-> GetNone(e.preparation)]

WithoutId(row) ==
    [recipe_id |-> row.recipe_id, ingredient_id |-> row.ingredient_id,
     amount_raw |-> row.amount_raw, preparation |-> row.preparation]

HasRow(e) == \E row \in Range(master.entries) : WithoutId(row) = RowOf(e)

\* C7 as claimed: entries differing in any amount_raw / preparation value are both present
C7_ExactMatchDedup ==
    Merged =>
        /\ \A j, k \in ResolvableEntries :
               (/\ HasValues(diff.entries[j]) /\ HasValues(diff.entries[k])
                /\ SameSlugs(diff.entries[j], diff.entries[k])
                /\ diff.entries[j] # diff.entries[k])
               => HasRow(diff.entries[j]) /\ HasRow(diff.entries[k])
        /\ \A x \in Range(before.entries) : \A k \in ResolvableEntries :
               (/\ HasValues(diff.entries[k])
                /\ x.recipe_id = RowOf(diff.entries[k]).recipe_id
                /\ x.ingredient_id = RowOf(diff.entries[k]).ingredient_id
                /\ WithoutId(x) # RowOf(diff.entries[k]))
               => x \in Range(master.entries) /\ HasRow(diff.entries[k])

\* C7 as amended: an entry whose dedup key is new is appended; stored rows stay
C7_DedupByKey ==
    Merged =>
        /\ IsPrefix(before.entries, master.entries)
        /\ \A k \in ResolvableEntries :
               (/\ \A x \in Range(before.entries) :
                       RowEntryKey(x) # ResolvedEntryKey(diff.entries[k])
                /\ \A j \in ResolvableEntries :
                       j < k => ResolvedEntryKey(diff.entries[j])
                                    # ResolvedEntryKey(diff.entries[k]))
               => \E row \in Range(Appended(before.entries, master.entries)) :
                      WithoutId(row) = RowOf(diff.entries[k])

\* a merge of two entries that differ only in preparation, into a corpus holding an
\* entry of the same recipe and ingredient with another amount: three rows
C7_Witness ==
    /\ Merged
    /\ \E j, k \in DOMAIN diff.entries :
           /\ SameSlugs(diff.entries[j], diff.entries[k])
           /\ diff.entries[j].amount_raw = diff.entries[k].amount_raw
           /\ diff.entries[j].preparation = Null
           /\ diff.entries[k].preparation = "strained"
           /\ HasRow(diff.entries[j]) /\ HasRow(diff.entries[k])
           /\ \E x \in Range(before.entries) :
                  /\ x.recipe_id = RowOf(diff.entries[k]).recipe_id
                  /\ x.ingredient_id = RowOf(diff.entries[k]).ingredient_id
                  /\ x.amount_raw # diff.entries[k].amount_raw
    /\ Len(master.entries) = Len(before.entries) + 2

(***************************************************************************)
(* C8.  Removal step 1.  As claimed (C8_ExactRemoval): an entry is deleted *)
(* if and only if some diff entry has exactly its recipe slug, ingredient  *)
(* slug, amount_raw and preparation (null, "" and text being three         *)
(* different values).  As amended (C8_NormalisedRemoval): if and only if   *)
(* some diff entry has its recipe slug and ingredient slug and the same    *)
(* amount_raw and preparation once a missing key, null and "" are read as  *)
(* one value; the other entries stay, unchanged and in their order.        *)
(***************************************************************************)
SlugOfId(rows, key, id) == (CHOOSE r \in Range(rows) : r[key] = id).slug

NamesEntry(e, x, SameValue(_, _)) ==
    /\ e.recipe_slug = SlugOfId(before.recipes, "recipe_id", x.recipe_id)
    /\ e.ingredient_slug = SlugOfId(before.ingredients, "ingredient_id", x.ingredient_id)
    /\ SameValue(x.amount_raw, e.amount_raw)
    /\ SameValue(x.preparation, e.preparation)

ExactlySame(v, w) == GetNone(v) = GetNone(w)

SameWhenEmptyIsNull(v, w) ==
    (IF v \in {Absent, Null, ""} THEN "" ELSE v) = (IF w \in {Absent, Null, ""} THEN "" ELSE w)

\* C8 as claimed: an entry is deleted iff a diff entry equals it in all four fields exactly
C8_ExactRemoval ==
    (Removed /\ \A e \in Range(diff.entries) : HasValues(e)) =>
        \A x \in Range(before.entries) :
            x \notin Range(master.entries)
                <=> \E e \in Range(diff.entries) : NamesEntry(e, x, ExactlySame)

C8_Survives(x) == ~ \E e \in Range(diff.entries) : NamesEntry(e, x, SameWhenEmptyIsNull)

\* C8 as amended: an entry is deleted iff a diff entry equals it with missing/null/"" as one
\* value; the surviving entries are the others, unchanged and in order
C8_NormalisedRemoval ==
    Removed => master.entries = SelectSeq(before.entries, C8_Survives)

\* of two entries of one recipe, ingredient and amount, with preparation null and
\* "strained", a removal naming the first deleted it and left the second
C8_Witness ==
    /\ Removed
    /\ Len(diff.entries) = 1
    /\ diff.entries[1].preparation = Null
    /\ Len(master.entries) = Len(before.entries) - 1
    /\ \E x, y \in Range(before.entries) :
           /\ x.recipe_id = y.recipe_id /\ x.ingredient_id = y.ingredient_id
           /\ x.amount_raw = y.amount_raw /\ x.amount_raw = diff.entries[1].amount_raw
           /\ x.preparation = Null /\ y.preparation = "strained"
           /\ x \notin Range(master.entries)
           /\ y \in Range(master.entries)

(***************************************************************************)
(* The validator (scripts/validate_diff.py).  It reads one diff file and   *)
(* never the corpus.  A label, whose characters the checks inspect, is a   *)
(* sequence of code points; AbsentText and NullText are a label key that   *)
(* is missing and one that is null.  The report lists the kind of each     *)
(* finding, in the order the code appends them.                            *)
(***************************************************************************)
AbsentText == <<-1>>
NullText == <<-2>>

\* the texts of the model, each as the sequence of its code points
Txt ==
    ("Kyphi" :> <<75, 121, 112, 104, 105>>)
        @@ ("Ky" :> <<75, 121>>)
        @@ ("Myrrh" :> <<77, 121, 114, 114, 104>>)
        @@ ("M" :> <<77>>)
        @@ ("myrrh" :> <<109, 121, 114, 114, 104>>)
        @@ (" Myrrh" :> <<32, 77, 121, 114, 114, 104>>)
        @@ ("juniper" :> <<106, 117, 110, 105, 112, 101, 114>>)
        @@ ("Juniper " :> <<74, 117, 110, 105, 112, 101, 114, 32>>)
        @@ ("cedar" :> <<99, 101, 100, 97, 114>>)
        @@ ("Cedar" :> <<67, 101, 100, 97, 114>>)
        @@ ("honey" :> <<104, 111, 110, 101, 121>>)
        @@ ("Honey" :> <<72, 111, 110, 101, 121>>)
        @@ ("myr" :> <<109, 121, 114>>)
        @@ ("cinnamon" :> <<99, 105, 110, 110, 97, 109, 111, 110>>)
        @@ ("arkeuthos" :> <<97, 114, 107, 101, 117, 116, 104, 111, 115>>)
        @@ ("wan" :> <<119, 97, 110>>)
        @@ ("species" :> <<115, 112, 101, 99, 105, 101, 115>>)
        @@ ("specie" :> <<115, 112, 101, 99, 105, 101>>)
        @@ ("berries" :> <<98, 101, 114, 114, 105, 101, 115>>)
        @@ ("berrie" :> <<98, 101, 114, 114, 105, 101>>)
        @@ ("resin" :> <<114, 101, 115, 105, 110>>)
        @@ ("tree" :> <<116, 114, 101, 101>>)
        @@ ("myrrha" :> <<109, 121, 114, 114, 104, 97>>)
        @@ ("murra" :> <<109, 117, 114, 114, 97>>)
        @@ ("Myrrh (resin)" :> <<77, 121, 114, 114, 104, 32, 40, 114, 101, 115, 105, 110, 41>>)
        @@ ("cedar tree" :> <<99, 101, 100, 97, 114, 32, 116, 114, 101, 101>>)
        @@ ("Juniper berries" :> <<74, 117, 110, 105, 112, 101, 114, 32, 98, 101, 114, 114, 105, 101, 115>>)
        @@ ("my" :> <<109, 121>>)
        @@ ("wine if old" :> <<119, 105, 110, 101, 32, 105, 102, 32, 111, 108, 100>>)
        @@ ("gum  resin" :> <<103, 117, 109, 32, 32, 114, 101, 115, 105, 110>>)
        @@ ("a (b) c (d" :> <<97, 32, 40, 98, 41, 32, 99, 32, 40, 100>>)
        @@ ("motif x" :> <<109, 111, 116, 105, 102, 32, 120>>)
        @@ ("if y" :> <<105, 102, 32, 121>>)
        @@ ("Cedar  Tree species" :> <<67, 101, 100, 97, 114, 32, 32, 84, 114, 101, 101, 32, 115, 112, 101, 99, 105, 101, 115>>)
        @@ ("x, if so (y) berries!" :> <<120, 44, 32, 105, 102, 32, 115, 111, 32, 40, 121, 41, 32, 98, 101, 114, 114, 105, 101, 115, 33>>)
        @@ ("stakte" :> <<115, 116, 97, 107, 116, 101>>)
        @@ ("<smyrne in Greek>" :> <<963, 956, 973, 961, 957, 951>>)

\* the em dash of the placeholder amounts
EmDash == "<U+2014>"

\* len(recipe["label"]) < 3
MinRecipeLabel == 3
\* len(ingredient["label"]) < 2
MinIngredientLabel == 2
\* ord(c) > 127
MaxAscii == 127

\* data/schema_diff.json: properties.<section>.items.required
required_fields(section) ==
    CASE section = "recipes" -> <<"slug", "label">>
      [] section = "ingredients" -> <<"slug", "label">>
      [] section = "aliases" -> <<"ingredient_slug", "variant_label">>
      [] section = "entries" -> <<"recipe_slug", "ingredient_slug">>

\* req_field in item
HasKey(item, field) ==
    IF field = "label" THEN item[field] # AbsentText ELSE item[field] # Absent

\* the errors of items[i], one for each required field it lacks
ItemSchemaErrors(section, item) ==
    LET req == required_fields(section)
        Lacks(f) == ~HasKey(item, f)
    IN  [k \in 1..Len(SelectSeq(req, Lacks)) |-> "missing required field"]

RECURSIVE SectionSchemaErrors(_, _)
SectionSchemaErrors(section, items) ==
    IF items = <<>> THEN <<>>
    ELSE ItemSchemaErrors(section, Head(items)) \o SectionSchemaErrors(section, Tail(items))

validate_json_schema(data) ==
    SectionSchemaErrors("recipes", data.recipes)
        \o SectionSchemaErrors("ingredients", data.ingredients)
        \o SectionSchemaErrors("aliases", data.aliases)
        \o SectionSchemaErrors("entries", data.entries)

\* [slug for slug, count in Counter(slugs).items() if count > 1]
Dupes(slugs) ==
    {s \in {slugs[k] : k \in DOMAIN slugs} : Cardinality({k \in DOMAIN slugs : slugs[k] = s}) > 1}

\* the subscript reads of the checks: item["slug"] and the like raise KeyError
\* on a missing key, len(None) raises TypeError
ValidateRaises(data) ==
    \/ \E k \in DOMAIN data.recipes : data.recipes[k].slug = Absent
    \/ \E k \in DOMAIN data.ingredients : data.ingredients[k].slug = Absent
    \/ \E k \in DOMAIN data.aliases : data.aliases[k].ingredient_slug = Absent
    \/ \E k \in DOMAIN data.entries :
           data.entries[k].recipe_slug = Absent \/ data.entries[k].ingredient_slug = Absent
    \/ \E k \in DOMAIN data.recipes : data.recipes[k].label \in {AbsentText, NullText}
    \/ \E k \in DOMAIN data.ingredients : data.ingredients[k].label \in {AbsentText, NullText}

NonAscii(label) == \E k \in DOMAIN label : label[k] > MaxAscii

IfThen(cond, finding) == IF cond THEN <<finding>> ELSE <<>>

\* validate_diff: raised when an exception leaves the function, otherwise its
\* return value ok and the three lists of findings
validate_diff(data) ==
    IF ValidateRaises(data)
    THEN [raised |-> TRUE, ok |-> FALSE, errors |-> <<>>, warnings |-> <<>>,
          suggestions |-> <<>>]
    ELSE
    LET schema_errors == validate_json_schema(data)
        recipe_slugs == [k \in DOMAIN data.recipes |-> data.recipes[k].slug]
        ingredient_slugs == [k \in DOMAIN data.ingredients |-> data.ingredients[k].slug]
        recipe_dupes == Dupes(recipe_slugs)
        ingredient_dupes == Dupes(ingredient_slugs)
        recipe_slug_set == {recipe_slugs[k] : k \in DOMAIN recipe_slugs}
        ingredient_slug_set == {ingredient_slugs[k] : k \in DOMAIN ingredient_slugs}
        bad_alias_refs ==
            {a.ingredient_slug : a \in {x \in {data.aliases[k] : k \in DOMAIN data.aliases} :
                                            x.ingredient_slug \notin ingredient_slug_set}}
        entries == {data.entries[k] : k \in DOMAIN data.entries}
        bad_entry_recipe_refs ==
            {e.recipe_slug : e \in {x \in entries : x.recipe_slug \notin recipe_slug_set}}
        bad_entry_ingredient_refs ==
            {e.ingredient_slug : e \in {x \in entries :
                                            x.ingredient_slug \notin ingredient_slug_set}}
        empty_amounts ==
            Cardinality({k \in DOMAIN data.entries :
                             GetNone(data.entries[k].amount_raw) \in {Null, "", EmDash, "?"}})
        short_labels ==
            {data.recipes[k].slug : k \in {j \in DOMAIN data.recipes :
                                               Len(data.recipes[j].label) < MinRecipeLabel}}
            \cup {data.ingredients[k].slug : k \in {j \in DOMAIN data.ingredients :
                                               Len(data.ingredients[j].label) < MinIngredientLabel}}
        non_ascii_without_lang ==
            {i.slug : i \in {x \in {data.ingredients[k] : k \in DOMAIN data.ingredients} :
                                 /\ NonAscii(x.label)
                                 /\ GetNone(x.language) \in {Null, ""}}}
        errors ==
            schema_errors
                \o IfThen(recipe_dupes # {}, "Duplicate recipe slugs")
                \o IfThen(ingredient_dupes # {}, "Duplicate ingredient slugs")
                \o IfThen(bad_alias_refs # {}, "Aliases reference unknown ingredients")
                \o IfThen(bad_entry_recipe_refs # {}, "Entries reference unknown recipes")
                \o IfThen(bad_entry_ingredient_refs # {}, "Entries reference unknown ingredients")
        warnings ==
            IfThen(empty_amounts > 0, "entries have empty/placeholder amounts")
                \o IfThen(short_labels # {}, "Very short labels")
        suggestions == IfThen(non_ascii_without_lang # {}, "Consider adding language tags")
    IN  [raised |-> FALSE, ok |-> errors = <<>>, errors |-> errors, warnings |-> warnings,
         suggestions |-> suggestions]

\* the diffs given to the validator, one array of each kind
DiffsValidate ==
    LET
        \* diff items as the validator reads them
        VRecipe(slug, label) == [slug |-> slug, label |-> label]

        VIngredient(slug, label, language) == [slug |-> slug, label |-> label, language |-> language]

        VEntry(recipe_slug, ingredient_slug, amount_raw) ==
            [recipe_slug |-> recipe_slug, ingredient_slug |-> ingredient_slug,
             amount_raw |-> amount_raw]

        \* the recipes array: one recipe, one with a short label, one slug twice, no slug key
        ValidateRecipes ==
            { <<VRecipe("kyphi-28", Txt["Kyphi"])>>,
              <<VRecipe("kyphi-28", Txt["Ky"])>>,
              <<VRecipe("kyphi-28", Txt["Kyphi"]), VRecipe("kyphi-28", Txt["Kyphi"])>>,
              <<VRecipe(Absent, Txt["Kyphi"])>> }

        \* the ingredients array: one ingredient, a Greek label without language, a short
        \* label, one slug twice, no label key
        ValidateIngredients ==
            { <<VIngredient("myrrh", Txt["Myrrh"], "en")>>,
              <<VIngredient("smyrne", Txt["<smyrne in Greek>"], Absent), VIngredient("myrrh", Txt["Myrrh"], "en")>>,
              <<VIngredient("myrrh", Txt["M"], "en")>>,
              <<VIngredient("myrrh", Txt["Myrrh"], "en"), VIngredient("myrrh", Txt["<smyrne in Greek>"], "grc")>>,
              <<VIngredient("myrrh", AbsentText, "en")>> }

        \* the aliases array: none, of the diff's ingredient, of an ingredient the diff does
        \* not define, no variant_label key
        ValidateAliases ==
            { <<>>,
              <<AliasItem("myrrh", "stakte")>>,
              <<AliasItem("honey", "meli")>>,
              <<AliasItem("myrrh", Absent)>> }

        \* the entries array: an amount, a placeholder and no amount, a recipe the diff does
        \* not define, no ingredient_slug key
        ValidateEntries ==
            { <<VEntry("kyphi-28", "myrrh", "2 hin")>>,
              <<VEntry("kyphi-28", "myrrh", "?"), VEntry("kyphi-28", "myrrh", Absent)>>,
              <<VEntry("kyphi-9", "myrrh", "2 hin")>>,
              <<VEntry("kyphi-28", Absent, "2 hin")>> }
    IN  {Diff(r, i, a, e) : r \in ValidateRecipes, i \in ValidateIngredients,
                            a \in ValidateAliases, e \in ValidateEntries}

\* the corpus on disk while the validator runs: empty, or holding the recipes
\* kyphi-28, kyphi-9 and the ingredients honey, myrrh
InitValidate ==
    \E m \in {EmptyCorpus, merge(EmptyCorpus, SeedDiff).master} : Start(m)

\* validate_diff.py on one file: main exits 1 when the file failed, __main__ exits 1
\* on an exception
Validate(d) ==
    LET report == validate_diff(d)
    IN  /\ diff' = d
        /\ op' = "validate"
        /\ result' = report
        /\ exit' = IF report.raised \/ ~report.ok THEN 1 ELSE 0
        /\ UNCHANGED <<master, before, ops, local, files>>

NextValidate == \E d \in DiffsValidate : Validate(d)

SpecValidate == InitValidate /\ [][NextValidate]_vars

Validated == op = "validate"

\* some item lacks a field its schema requires
MissingRequired(d) ==
    \E section \in {"recipes", "ingredients", "aliases", "entries"} :
        \E k \in DOMAIN d[section] :
            \E f \in DOMAIN required_fields(section) :
                ~HasKey(d[section][k], required_fields(section)[f])

\* two recipes or two ingredients of the diff carry one slug
DuplicatedSlug(d) ==
    \/ \E j, k \in DOMAIN d.recipes : j # k /\ d.recipes[j].slug = d.recipes[k].slug
    \/ \E j, k \in DOMAIN d.ingredients : j # k /\ d.ingredients[j].slug = d.ingredients[k].slug

\* an alias or an entry refers to a slug that the diff's own arrays do not define
UndefinedReference(d) ==
    \/ \E a \in Range(d.aliases) : a.ingredient_slug \notin FieldValues(d.ingredients, "slug")
    \/ \E e \in Range(d.entries) :
           \/ e.recipe_slug \notin FieldValues(d.recipes, "slug")
           \/ e.ingredient_slug \notin FieldValues(d.ingredients, "slug")

Blocking(d) == MissingRequired(d) \/ DuplicatedSlug(d) \/ UndefinedReference(d)

(***************************************************************************)
(* C11.  validate_diff returns ok = false if and only if the diff has a    *)
(* missing required field, a recipe or ingredient slug duplicated within   *)
(* the diff, or an alias / entry reference to a slug the diff does not     *)
(* define, whatever the corpus holds; a diff whose only findings are       *)
(* quality heuristics returns ok = true.                                   *)
(***************************************************************************)
C11_OkFalseIff ==
    Validated =>
        /\ (~result.raised /\ ~result.ok) <=> Blocking(diff)
        /\ ~Blocking(diff) => (~result.raised /\ result.ok)

\* the same, of the runs in which validate_diff returns
OkFalseIffWhenReturns ==
    (Validated /\ ~result.raised) =>
        /\ ~result.ok <=> Blocking(diff)
        /\ exit = IF result.ok THEN 0 ELSE 1

\* a diff with warnings and a suggestion and nothing else was passed, over a
\* corpus that holds none of its slugs
QualityFindingsPass ==
    /\ Validated
    /\ ~result.raised /\ result.ok
    /\ result.warnings # <<>>
    /\ result.suggestions # <<>>
    /\ master = EmptyCorpus

(***************************************************************************)
(* Invocations that overlap.  merge_diff.py and remove_diff.py read the    *)
(* corpus file and the diff file into memory, work on the copy, and write  *)
(* the corpus file as their last statement; nothing locks the file.  An    *)
(* invocation is therefore two steps, its loads and its finish, and the    *)
(* steps of different invocations interleave.  local[p] is invocation p:   *)
(* the copy it loaded, its diff, and, once it has finished, its exit       *)
(* status and whether it wrote; loaded_at and finished_at are the values   *)
(* of ops (the number of finished invocations) at its two steps.           *)
(***************************************************************************)
\* invocations that may overlap
NumInvocations == 2

Invocations == 1..NumInvocations

Idle ==
    [pc |-> "idle", script |-> "", master |-> EmptyCorpus, diff |-> NoDiff,
     exit |-> 0, wrote |-> FALSE, loaded_at |-> 0, finished_at |-> 0]

\* the function the script runs on what it loaded
Run(script, m, d) == IF script = "merge" THEN merge(m, d) ELSE remove_diff(m, d)

\* what the invocation computes from its in-memory copy and hands to save
SavedFile_Reloaded(loc) == Run(loc.script, master, loc.diff)

SavedFile(loc) == Run(loc.script, loc.master, loc.diff)

\* the diffs of overlapping invocations: two disjoint recipes, one sharing a
\* recipe with the first, one whose ingredient has no slug key
DiffsConcurrent ==
    { Diff(<<RecipeItem("kyphi-28", "Kyphi")>>, <<IngredientItem("myrrh", "Myrrh")>>,
           <<AliasItem("myrrh", "smyrna")>>,
           <<EntryItem("kyphi-28", "myrrh", "2 hin", Null)>>),
      Diff(<<RecipeItem("kyphi-9", "Kyphi")>>, <<IngredientItem("honey", "Honey")>>,
           <<>>, <<EntryItem("kyphi-9", "honey", "1 hin", Null)>>),
      Diff(<<RecipeItem("kyphi-28", "Kyphi")>>, <<IngredientItem("honey", "Honey")>>,
           <<>>, <<EntryItem("kyphi-28", "honey", "1 hin", Null)>>),
      Diff(<<RecipeItem("kyphi-9", "Kyphi")>>, <<IngredientItem(Absent, "Honey")>>,
           <<>>, <<>>) }

\* the corpus file when the first invocation starts
CorporaConcurrent ==
    { EmptyCorpus,
      merge(EmptyCorpus,
            Diff(<<RecipeItem("kyphi-28", "Kyphi")>>, <<IngredientItem("myrrh", "Myrrh")>>,
                 <<AliasItem("myrrh", "smyrna")>>,
                 <<EntryItem("kyphi-28", "myrrh", "2 hin", Null)>>)).master }

InitConcurrent ==
    \E m \in CorporaConcurrent :
        /\ master = m
        /\ before = m
        /\ diff = NoDiff
        /\ op = "init"
        /\ exit = 0
        /\ ops = 0
        /\ result = NoResult
        /\ files = NoFiles
        /\ local = [p \in Invocations |-> Idle]

\* master = load(master_path); diff = load(diff_path)
Load(p, script, d) ==
    /\ local[p].pc = "idle"
    /\ local' = [local EXCEPT ![p] = [Idle EXCEPT !.pc = "loaded", !.script = script,
                                                 !.master = master, !.diff = d,
                                                 !.loaded_at = ops]]
    /\ UNCHANGED <<master, before, diff, op, exit, ops, result, files>>

\* a load raises (a file is missing or is not JSON): merge_diff.py's __main__
\* catches it and exits 1, remove_diff.py ends with the traceback, status 1
LoadFails(p, script) ==
    /\ local[p].pc = "idle"
    /\ ops' = ops + 1
    /\ local' = [local EXCEPT ![p] = [Idle EXCEPT !.pc = "done", !.script = script,
                                                 !.exit = 1, !.loaded_at = ops,
                                                 !.finished_at = ops + 1]]
    /\ before' = master
    /\ diff' = NoDiff
    /\ op' = script
    /\ exit' = 1
    /\ UNCHANGED <<master, result, files>>

\* the four steps on the copy, then save(master_path, master); a step that
\* raises ends the invocation before save
Finish(p) ==
    LET loc == local[p]
        res == SavedFile(loc)
    IN  /\ loc.pc = "loaded"
        /\ ops' = ops + 1
        /\ master' = FileAfter(master, res)
        /\ local' = [local EXCEPT ![p] = [loc EXCEPT !.pc = "done",
                                                     !.exit = IF res.raised THEN 1 ELSE 0,
                                                     !.wrote = ~res.raised,
                                                     !.finished_at = ops + 1]]
        /\ before' = loc.master
        /\ diff' = loc.diff
        /\ op' = loc.script
        /\ exit' = IF res.raised THEN 1 ELSE 0
        /\ UNCHANGED <<result, files>>

NextConcurrent ==
    \/ \E p \in Invocations, script \in {"merge", "remove"}, d \in DiffsConcurrent :
           Load(p, script, d)
    \/ \E p \in Invocations, script \in {"merge", "remove"} : LoadFails(p, script)
    \/ \E p \in Invocations : Finish(p)

SpecConcurrent == InitConcurrent /\ [][NextConcurrent]_vars

\* q wrote the file and nobody wrote it after q
LastWriter(q) ==
    /\ local[q].pc = "done" /\ local[q].wrote
    /\ \A r \in Invocations \ {q} :
           (local[r].pc = "done" /\ local[r].wrote) =>
               local[r].finished_at < local[q].finished_at

\* p wrote the file after q had loaded it and before q wrote it
WroteBetween(p, q) ==
    /\ local[p].pc = "done" /\ local[p].wrote
    /\ local[q].loaded_at < local[p].finished_at
    /\ local[p].finished_at < local[q].finished_at

\* the rows of an entity set that the invocation on its own adds to what it loaded
RowsAddedBy(loc, set) ==
    Range(Run(loc.script, loc.master, loc.diff).master[set]) \ Range(loc.master[set])

EntitySets == {"recipes", "ingredients", "aliases", "entries"}

(***************************************************************************)
(* C12.  Lost update: when two invocations have both loaded the corpus     *)
(* file before either saves, the file after both have saved is what the    *)
(* later saver alone makes of the file it loaded; a row the earlier saver  *)
(* added is absent unless the later saver's own result holds it, and both  *)
(* invocations end with status 0.                                          *)
(***************************************************************************)
C12_LostUpdate ==
    \A p, q \in Invocations :
        (op # "init" /\ p # q /\ WroteBetween(p, q) /\ LastWriter(q)) =>
            LET alone == Run(local[q].script, local[q].master, local[q].diff).master
            IN  /\ master = alone
                /\ \A set \in EntitySets :
                       \A row \in RowsAddedBy(local[p], set) :
                           row \notin Range(alone[set]) => row \notin Range(master[set])
                /\ local[p].exit = 0 /\ local[q].exit = 0

\* two merges loaded the same file; the first saved a recipe that the file no
\* longer holds after the second saved
C12_Witness ==
    /\ op # "init"
    /\ \E p, q \in Invocations :
           /\ p # q /\ WroteBetween(p, q) /\ LastWriter(q)
           /\ local[p].loaded_at = 0 /\ local[q].loaded_at = 0
           /\ local[p].script = "merge" /\ local[q].script = "merge"
           /\ \E row \in RowsAddedBy(local[p], "recipes") : row \notin Range(master.recipes)
           /\ RowsAddedBy(local[q], "recipes") # {}

(***************************************************************************)
(* Texts.  str.lower() and str.strip() on sequences of code points; the    *)
(* texts of the model are ASCII letters, spaces and punctuation, and       *)
(* lowercase Greek.                                                        *)
(***************************************************************************)
Space == 32

lower(text) ==
    [k \in DOMAIN text |-> IF text[k] >= 65 /\ text[k] <= 90 THEN text[k] + 32 ELSE text[k]]

RECURSIVE lstrip(_)
lstrip(text) ==
    IF text # <<>> /\ Head(text) = Space THEN lstrip(Tail(text)) ELSE text

RECURSIVE rstrip(_)
rstrip(text) ==
    IF text # <<>> /\ text[Len(text)] = Space
    THEN rstrip(SubSeq(text, 1, Len(text) - 1)) ELSE text

strip(text) == lstrip(rstrip(text))

(***************************************************************************)
(* The exact clusterer (scripts/generate_equivalences.py).  The corpus     *)
(* rows it reads carry the language that merge copies from the diff item.  *)
(***************************************************************************)
\* variant = alias["variant_label"].lower().strip()
EnglishVariant(alias) == strip(lower(alias.variant_label))

\* the (variant, ingredient) pairs appended to english_aliases, in alias order
RECURSIVE EnglishAliases(_, _)
EnglishAliases(ingredients, aliases) ==
    IF aliases = <<>> THEN <<>>
    ELSE LET alias == Head(aliases)
             rest == EnglishAliases(ingredients, Tail(aliases))
         IN  IF GetNone(alias.language) = "en" /\ alias.ingredient_id \in DOMAIN ingredients
             THEN <<[variant |-> EnglishVariant(alias),
                     ingredient |-> ingredients[alias.ingredient_id]]>> \o rest
             ELSE rest

\* the keys of english_aliases in insertion order
RECURSIVE FirstOccurrences(_, _)
FirstOccurrences(pairs, seen) ==
    IF pairs = <<>> THEN <<>>
    ELSE IF Head(pairs).variant \in seen THEN FirstOccurrences(Tail(pairs), seen)
    ELSE <<Head(pairs).variant>>
             \o FirstOccurrences(Tail(pairs), seen \cup {Head(pairs).variant})

\* "high" if english_name in ["myrrh", "honey", "juniper", "cinnamon"] else "medium"
AllowList == {Txt["myrrh"], Txt["honey"], Txt["juniper"], Txt["cinnamon"]}

EquivalenceGroup(english_name, ingredient_list) ==
    [canonical_name |-> english_name,
     confidence |-> IF english_name \in AllowList THEN "high" ELSE "medium",
     ingredients |-> [k \in DOMAIN ingredient_list |-> ingredient_list[k].ingredient.label],
     slugs |-> [k \in DOMAIN ingredient_list |-> ingredient_list[k].ingredient.slug],
     languages |-> {Get(ingredient_list[k].ingredient.language, "unknown") :
                        k \in DOMAIN ingredient_list}]

\* equivalence_groups.sort(key=lambda x: len(x["ingredients"]), reverse=True): stable
RECURSIVE SortBySize(_, _)
SortBySize(groups, size) ==
    IF size < 2 THEN <<>>
    ELSE LET OfSize(g) == Len(g.ingredients) = size
         IN  SelectSeq(groups, OfSize) \o SortBySize(groups, size - 1)

\* the equivalence_groups of the object generate_equivalences returns
generate_equivalences(m) ==
    LET ingredients == idx_by(m.ingredients, "ingredient_id")
        pairs == EnglishAliases(ingredients, m.aliases)
        names == FirstOccurrences(pairs, {})
        ListOf(n) == LET Named(x) == x.variant = n IN SelectSeq(pairs, Named)
        Shared(n) == Len(ListOf(n)) > 1
        shared == SelectSeq(names, Shared)
        groups == [k \in DOMAIN shared |-> EquivalenceGroup(shared[k], ListOf(shared[k]))]
    IN  SortBySize(groups, Len(pairs))

\* corpus rows as merge stores them, with the language it copies
IngredientRow(id, slug, label, language) ==
    [ingredient_id |-> id, slug |-> slug, label |-> label, language |-> language]

AliasRow(id, ingredient_id, variant_label, language) ==
    [alias_id |-> id, ingredient_id |-> ingredient_id, variant_label |-> variant_label,
     language |-> language]

\* the alias rows of a sequence of (ingredient_id, variant_label, language), with
\* the ids merge assigns in an empty alias set
AliasRows(specs) == [k \in DOMAIN specs |-> AliasRow(k, specs[k][1], specs[k][2], specs[k][3])]

\* sequences of at most n members of S
SeqsUpTo(S, n) == UNION {[1..k -> S] : k \in 0..n}

\* merge stores an (ingredient_id, variant_label) pair once
DistinctAliasKeys(specs) ==
    \A j, k \in DOMAIN specs :
        j # k => <<specs[j][1], specs[j][2]>> # <<specs[k][1], specs[k][2]>>

\* the corpora with a fixed ingredient array and at most n aliases of a pool
CorporaOver(ingredients, pool, n) ==
    { [recipes |-> <<>>, ingredients |-> ingredients, aliases |-> AliasRows(specs),
       entries |-> <<>>] :
          specs \in {s \in SeqsUpTo(pool, n) : DistinctAliasKeys(s)} }

\* longest alias array of the corpora the exact clusterer is run on
MaxExactAliases == 3

CorporaExact ==
    CorporaOver(<<IngredientRow(1, "arkeuthos", Txt["arkeuthos"], "grc"),
                  IngredientRow(2, "wan", Txt["wan"], "egy"),
                  IngredientRow(3, "myrrh", Txt["Myrrh"], Absent)>>,
                { <<1, Txt["juniper"], "en">>, <<2, Txt["juniper"], "en">>, <<2, Txt["Juniper "], "en">>,
                  <<3, Txt["myrrh"], "en">>, <<3, Txt[" Myrrh"], "en">>, <<1, Txt["cedar"], "en">>,
                  <<2, Txt["Cedar"], "en">>, <<3, Txt["juniper"], Null>> },
                MaxExactAliases)

ExistingFile(content) == [exists |-> TRUE, content |-> content]

InitGenerate == \E m \in CorporaExact : Start(m)

\* generate_equivalences.py: main writes what generate_equivalences returns to
\* data/equivalences.json
Generate ==
    LET equivalences == generate_equivalences(master)
    IN  /\ op = "init"
        /\ op' = "generate"
        /\ result' = equivalences
        /\ files' = [files EXCEPT !.data_equivalences = ExistingFile(equivalences)]
        /\ exit' = 0
        /\ UNCHANGED <<master, before, diff, ops, local>>

NextGenerate == Generate

SpecGenerate == InitGenerate /\ [][NextGenerate]_vars

\* the slugs of the ingredients that own an English alias whose lowercased,
\* stripped text is n
OwnersOf(n) ==
    {i.slug : i \in {x \in Range(master.ingredients) :
                         \E a \in Range(master.aliases) :
                             /\ a.ingredient_id = x.ingredient_id
                             /\ a.language = "en"
                             /\ strip(lower(a.variant_label)) = n}}

GroupsNamed(n) == {k \in DOMAIN result : result[k].canonical_name = n}

EnglishNames ==
    {strip(lower(a.variant_label)) : a \in {x \in Range(master.aliases) : x.language = "en"}}

(***************************************************************************)
(* C17.  Exact clustering: generate_equivalences emits one group named n   *)
(* exactly when two or more different ingredients each own an English      *)
(* alias whose normalized text is n; the group's slugs are exactly those   *)
(* ingredients, each listed once; its confidence is high when n is in the  *)
(* allow-list and medium otherwise.                                        *)
(***************************************************************************)
C17_ExactClustering ==
    op = "generate" =>
        /\ \A k \in DOMAIN result : result[k].canonical_name \in EnglishNames
        /\ \A n \in EnglishNames :
               /\ Cardinality(GroupsNamed(n)) = IF Cardinality(OwnersOf(n)) >= 2 THEN 1 ELSE 0
               /\ \A k \in GroupsNamed(n) :
                      /\ Range(result[k].slugs) = OwnersOf(n)
                      /\ Len(result[k].slugs) = Cardinality(OwnersOf(n))
                      /\ result[k].confidence =
                             IF n \in {Txt["myrrh"], Txt["honey"], Txt["juniper"],
                                       Txt["cinnamon"]}
                             THEN "high" ELSE "medium"

\* the same with an ingredient counted once for each of its aliases of that text
GroupsPerAlias ==
    op = "generate" =>
        /\ \A k \in DOMAIN result : result[k].canonical_name \in EnglishNames
        /\ \A n \in EnglishNames :
               LET owning == {a \in Range(master.aliases) :
                                  a.language = "en" /\ strip(lower(a.variant_label)) = n}
               IN  /\ Cardinality(GroupsNamed(n)) = IF Cardinality(owning) >= 2 THEN 1 ELSE 0
                   /\ \A k \in GroupsNamed(n) :
                          /\ Range(result[k].slugs) = OwnersOf(n)
                          /\ Len(result[k].slugs) = Cardinality(owning)

\* Scenario D: two ingredients with the English alias "juniper" and nothing else
\* gave the one group juniper, high, with both slugs
ScenarioD ==
    /\ op = "generate"
    /\ Len(master.aliases) = 2
    /\ \A a \in Range(master.aliases) : a.variant_label = Txt["juniper"] /\ a.language = "en"
    /\ Len(result) = 1
    /\ result[1].canonical_name = Txt["juniper"]
    /\ result[1].confidence = "high"
    /\ result[1].slugs \in {<<"arkeuthos", "wan">>, <<"wan", "arkeuthos">>}

(***************************************************************************)
(* difflib.SequenceMatcher(None, a, b).ratio() on sequences of code        *)
(* points.  Blocks are 1-based and inclusive.  A ratio 2.0 * M / T is the  *)
(* pair <<2 * M, T>>; two such quotients are compared by cross             *)
(* multiplication, which orders them as their floating point values are    *)
(* ordered (a correctly rounded division is monotonic and gives equal      *)
(* quotients equal values, and a decimal threshold is the float of its     *)
(* own quotient).                                                          *)
(***************************************************************************)
RECURSIVE RunLength(_, _, _, _, _, _)
RunLength(a, b, i, j, ahi, bhi) ==
    IF i > ahi \/ j > bhi THEN 0
    ELSE IF a[i] # b[j] THEN 0
    ELSE 1 + RunLength(a, b, i + 1, j + 1, ahi, bhi)

\* the longest block; of the longest, the earliest in a; of those, the earliest in b
find_longest_match(a, b, alo, ahi, blo, bhi) ==
    LET blocks == {[i |-> i, j |-> j, size |-> RunLength(a, b, i, j, ahi, bhi)] :
                       i \in alo..ahi, j \in blo..bhi}
        longest == {x \in blocks : \A y \in blocks : y.size <= x.size}
    IN  CHOOSE x \in longest : \A y \in longest : x.i < y.i \/ (x.i = y.i /\ x.j <= y.j)

\* the sum of the sizes of get_matching_blocks()
RECURSIVE MatchingTotal(_, _, _, _, _, _)
MatchingTotal(a, b, alo, ahi, blo, bhi) ==
    IF alo > ahi \/ blo > bhi THEN 0
    ELSE LET x == find_longest_match(a, b, alo, ahi, blo, bhi)
         IN  IF x.size = 0 THEN 0
             ELSE x.size
                      + MatchingTotal(a, b, alo, x.i - 1, blo, x.j - 1)
                      + MatchingTotal(a, b, x.i + x.size, ahi, x.j + x.size, bhi)

ratio(a, b) ==
    IF Len(a) + Len(b) = 0 THEN <<1, 1>>
    ELSE <<2 * MatchingTotal(a, b, 1, Len(a), 1, Len(b)), Len(a) + Len(b)>>

\* sim > t for two ratios
Above(sim, t) == sim[1] * t[2] > t[1] * sim[2]

(***************************************************************************)
(* The fuzzy matcher: find_similar_ingredients (scripts/ingredient_db.py)  *)
(* and fuzzy_match (scripts/assist_ingestion.py).                          *)
(***************************************************************************)
\* re.sub(r'[^\w\s]', '', text): ASCII punctuation is removed
IsPunctuation(c) ==
    \/ c >= 33 /\ c <= 47
    \/ c >= 58 /\ c <= 64
    \/ c >= 91 /\ c <= 94
    \/ c = 96
    \/ c >= 123 /\ c <= 126

StripPunctuation(text) == LET Kept(c) == ~IsPunctuation(c) IN SelectSeq(text, Kept)

\* ' '.join(text.split())
RECURSIVE CollapseSpaces(_)
CollapseSpaces(text) ==
    IF text = <<>> THEN <<>>
    ELSE IF Head(text) = Space /\ (Len(text) = 1 \/ text[2] = Space)
    THEN CollapseSpaces(Tail(text))
    ELSE <<Head(text)>> \o CollapseSpaces(Tail(text))

normalize_for_search(text) == lstrip(CollapseSpaces(StripPunctuation(lower(text))))

similarity(a, b) == ratio(normalize_for_search(a), normalize_for_search(b))

\* threshold=0.4 of find_similar_ingredients, sim > 0.3 of fuzzy_match
SearchThreshold == <<4, 10>>
FuzzyThreshold == <<3, 10>>
\* top_n=5
top_n == 5

Match(type, ingredient, variant, language, sim) ==
    [type |-> type, slug |-> ingredient.slug, label |-> ingredient.label,
     alias |-> variant, language |-> language, similarity |-> sim]

\* the matches of the loop over the ingredient labels; sims[k] is the similarity
\* of the query and the label of ingredients[k]
LabelMatches(ingredients, sims, threshold, default) ==
    LET all == [k \in DOMAIN ingredients |->
                    Match("ingredient", ingredients[k], <<>>,
                          Get(ingredients[k].language, default), sims[k])]
        Passes(x) == Above(x.similarity, threshold)
    IN  SelectSeq(all, Passes)

\* the matches of the loop over the aliases; sims[k] is the similarity of the
\* query and the variant of aliases[k]; an alias whose ingredient_id is unknown is
\* left out
VariantMatches(ingredients_by_id, aliases, sims, threshold, default) ==
    LET Known(p) == p[1].ingredient_id \in DOMAIN ingredients_by_id
        known == SelectSeq([k \in DOMAIN aliases |-> <<aliases[k], sims[k]>>], Known)
        all == [k \in DOMAIN known |->
                    Match("alias", ingredients_by_id[known[k][1].ingredient_id],
                          known[k][1].variant_label, Get(known[k][1].language, default),
                          known[k][2])]
        Passes(x) == Above(x.similarity, threshold)
    IN  SelectSeq(all, Passes)

\* sorted(matches, key=lambda x: x["similarity"], reverse=True), without sorting
SortByScore_Unsorted(matches) == matches

\* sorted(matches, key=lambda x: x["similarity"], reverse=True): a stable sort, so
\* matches of equal similarity keep the order in which they were appended
RECURSIVE SortByScore(_)
SortByScore(matches) ==
    IF matches = <<>> THEN <<>>
    ELSE LET x == matches[Len(matches)]
             sorted == SortByScore(SubSeq(matches, 1, Len(matches) - 1))
             before_x == {k \in DOMAIN sorted : ~Above(x.similarity, sorted[k].similarity)}
             n == Cardinality(before_x)
         IN  SubSeq(sorted, 1, n) \o <<x>> \o SubSeq(sorted, n + 1, Len(sorted))

\* the first match of each slug
RECURSIVE UniqueBySlug(_, _)
UniqueBySlug(matches, seen_slugs) ==
    IF matches = <<>> THEN <<>>
    ELSE IF Head(matches).slug \in seen_slugs THEN UniqueBySlug(Tail(matches), seen_slugs)
    ELSE <<Head(matches)>>
             \o UniqueBySlug(Tail(matches), seen_slugs \cup {Head(matches).slug})

find_similar_ingredients(m, query) ==
    LET Sim(text) == similarity(query, text)
        matches ==
            LabelMatches(m.ingredients,
                         [k \in DOMAIN m.ingredients |-> Sim(m.ingredients[k].label)],
                         SearchThreshold, "unknown")
                \o VariantMatches(idx_by(m.ingredients, "ingredient_id"), m.aliases,
                                  [k \in DOMAIN m.aliases |-> Sim(m.aliases[k].variant_label)],
                                  SearchThreshold, "unknown")
    IN  UniqueBySlug(SortByScore(matches), {})

\* fuzzy_match without the equivalence_group it looks up for each match
fuzzy_match(m, query) ==
    LET query_norm == strip(lower(query))
        Sim(text) == ratio(query_norm, lower(text))
        matches ==
            LabelMatches(m.ingredients,
                         [k \in DOMAIN m.ingredients |-> Sim(m.ingredients[k].label)],
                         FuzzyThreshold, "?")
                \o VariantMatches(idx_by(m.ingredients, "ingredient_id"), m.aliases,
                                  [k \in DOMAIN m.aliases |-> Sim(m.aliases[k].variant_label)],
                                  FuzzyThreshold, "?")
        unique == UniqueBySlug(SortByScore(matches), {})
    IN  SubSeq(unique, 1, IF Len(unique) < top_n THEN Len(unique) ELSE top_n)

\* longest alias array of the corpora that are searched
MaxSearchAliases == 2

CorporaSearch ==
    CorporaOver(<<IngredientRow(1, "myrrh", Txt["Myrrh"], "en"),
                  IngredientRow(2, "smyrne", Txt["myr"], "grc"),
                  IngredientRow(3, "honey", Txt["Honey"], Absent)>>,
                { <<1, Txt["myrrh"], "en">>, <<2, Txt["myrrh"], "en">>, <<2, Txt["stakte"], "en">>,
                  <<3, Txt["honey"], "en">>, <<3, Txt[" Myrrh"], Absent>> },
                MaxSearchAliases)

Queries == {Txt["myrrh"], Txt[" Myrrh"], Txt["honey"], Txt["myr"], Txt["wan"]}

InitSearch == \E m \in CorporaSearch : Start(m)

\* ingredient_db.py --search QUERY: the matches are printed, or "No similar
\* ingredients found."; the script ends normally either way
Search(query) ==
    /\ op' = "search"
    /\ local' = [query |-> query]
    /\ result' = find_similar_ingredients(master, query)
    /\ exit' = 0
    /\ UNCHANGED <<master, before, diff, ops, files>>

\* assist_ingestion.py --fuzzy-match QUERY: without matches main returns
FuzzyMatch(query) ==
    /\ op' = "fuzzy_match"
    /\ local' = [query |-> query]
    /\ result' = fuzzy_match(master, query)
    /\ exit' = 0
    /\ UNCHANGED <<master, before, diff, ops, files>>

NextSearch ==
    \/ \E query \in Queries : Search(query)
    \/ \E query \in Queries : FuzzyMatch(query)

SpecSearch == InitSearch /\ [][NextSearch]_vars

Searched == op \in {"search", "fuzzy_match"}

\* the pool in its order: the ingredient labels, then the aliases
Pool ==
    [k \in DOMAIN master.ingredients |->
         [type |-> "ingredient", slug |-> master.ingredients[k].slug,
          text |-> master.ingredients[k].label]]
    \o [k \in DOMAIN master.aliases |->
         [type |-> "alias",
          slug |-> idx_by(master.ingredients, "ingredient_id")[master.aliases[k].ingredient_id].slug,
          text |-> master.aliases[k].variant_label]]

\* the score of a pool text for the query of the last search
Score(text) ==
    IF op = "search" THEN similarity(local.query, text)
    ELSE ratio(strip(lower(local.query)), lower(text))

\* the pool position of the occurrence a result was made from
PoolPosition(r) ==
    CHOOSE p \in DOMAIN Pool :
        /\ Pool[p].type = r.type /\ Pool[p].slug = r.slug
        /\ Pool[p].text = IF r.type = "ingredient" THEN r.label ELSE r.alias

(***************************************************************************)
(* C18.  Fuzzy matcher ranking: the returned list is ordered by            *)
(* non-increasing score, holds at most one result per ingredient slug, the *)
(* result kept for a slug is the highest-scoring occurrence among its      *)
(* label and aliases, and results of equal score are in pool order (the    *)
(* ingredient labels in corpus order, then the aliases in corpus order).   *)
(***************************************************************************)
C18_Ranking ==
    Searched =>
        /\ \A j, k \in DOMAIN result :
               j < k => /\ ~Above(result[k].similarity, result[j].similarity)
                        /\ result[j].slug # result[k].slug
                        /\ ~Above(result[j].similarity, result[k].similarity)
                               => PoolPosition(result[j]) < PoolPosition(result[k])
        /\ \A k \in DOMAIN result :
               /\ result[k].similarity = Score(Pool[PoolPosition(result[k])].text)
               /\ \A p \in DOMAIN Pool :
                      Pool[p].slug = result[k].slug =>
                          /\ ~Above(Score(Pool[p].text), result[k].similarity)
                          /\ ~Above(result[k].similarity, Score(Pool[p].text))
                                 => PoolPosition(result[k]) <= p

\* a search returned two slugs of equal score, one of them kept from an alias that
\* scores higher than the slug's label
C18_Witness ==
    /\ Searched
    /\ \E j, k \in DOMAIN result :
           /\ j < k
           /\ ~Above(result[j].similarity, result[k].similarity)
           /\ result[k].type = "alias"
           /\ \E p \in DOMAIN Pool :
                  /\ Pool[p].slug = result[k].slug /\ Pool[p].type = "ingredient"
                  /\ Above(result[k].similarity, Score(Pool[p].text))

(***************************************************************************)
(* The fuzzy clusterer: normalize_alias_text and find_similar_aliases      *)
(* (scripts/build_equivalences.py).                                        *)
(***************************************************************************)
\* re.sub(r'\s*\([^)]*\)', '', text): the first "(" up to the next ")" goes, with
\* the spaces before it, and the rest is searched in the same way
RECURSIVE RemoveParentheticals(_)
RemoveParentheticals(text) ==
    LET opens == {k \in DOMAIN text : text[k] = 40}
        p == CHOOSE k \in opens : \A j \in opens : k <= j
        closes == {k \in DOMAIN text : k > p /\ text[k] = 41}
        q == CHOOSE k \in closes : \A j \in closes : k <= j
    IN  IF opens = {} THEN text
        ELSE IF closes = {} THEN text
        ELSE rstrip(SubSeq(text, 1, p - 1))
                 \o RemoveParentheticals(SubSeq(text, q + 1, Len(text)))

\* re.sub(r'\s*(if\s+\w+)', '', text): the first "if" that spaces and a word
\* follow goes with that word and the spaces before it
RECURSIVE RemoveIfQualifiers(_)
RemoveIfQualifiers(text) ==
    LET IsWord(c) == c # Space /\ ~IsPunctuation(c)
        \* the first index from k on that holds no space / no word character
        AfterSpaces(k) ==
            CHOOSE x \in k..(Len(text) + 1) :
                /\ \A t \in k..(x - 1) : text[t] = Space
                /\ x = Len(text) + 1 \/ text[x] # Space
        AfterWord(k) ==
            CHOOSE x \in k..(Len(text) + 1) :
                /\ \A t \in k..(x - 1) : IsWord(text[t])
                /\ x = Len(text) + 1 \/ ~IsWord(text[x])
        starts ==
            {s \in DOMAIN text :
                 /\ s + 2 <= Len(text)
                 /\ text[s] = 105 /\ text[s + 1] = 102 /\ text[s + 2] = Space
                 /\ AfterWord(AfterSpaces(s + 2)) > AfterSpaces(s + 2)}
        s == CHOOSE k \in starts : \A j \in starts : k <= j
    IN  IF starts = {} THEN text
        ELSE rstrip(SubSeq(text, 1, s - 1))
                 \o RemoveIfQualifiers(SubSeq(text, AfterWord(AfterSpaces(s + 2)), Len(text)))

\* re.sub(r'\s+<word>$', '', text, flags=re.IGNORECASE)
StripSuffix(text, word) ==
    LET n == Len(word)
        L == Len(text)
    IN  IF L > n /\ text[L - n] = Space /\ lower(SubSeq(text, L - n + 1, L)) = word
        THEN rstrip(SubSeq(text, 1, L - n)) ELSE text

normalize_alias_text(text) ==
    LET qualified == RemoveIfQualifiers(RemoveParentheticals(text))
        species == StripSuffix(StripSuffix(qualified, Txt["species"]), Txt["specie"])
        berries == StripSuffix(StripSuffix(species, Txt["berries"]), Txt["berrie"])
        botanical == StripSuffix(StripSuffix(berries, Txt["resin"]), Txt["tree"])
    IN  strip(lower(lstrip(CollapseSpaces(StripPunctuation(botanical)))))

ClusterThreshold == <<7, 10>>

\* normalized terms of at most this length are skipped
MinNormalized == 2

\* the aliases find_similar_aliases compares: English, with a normalized text of
\* more than two characters, in corpus order
NormalizedAliases(aliases) ==
    LET Normalized(alias) ==
            [original |-> alias,
             normalized |-> normalize_alias_text(alias.variant_label),
             ingredient_id |-> alias.ingredient_id]
        all == [k \in DOMAIN aliases |-> Normalized(aliases[k])]
    IN  SelectSeq(all, LAMBDA a : a.original.language = "en"
                                  /\ Len(a.normalized) > MinNormalized)

\* mutant: the members of a group are not marked as processed
RECURSIVE GreedyGroups_MembersStay(_, _, _, _)
GreedyGroups_MembersStay(normalized_aliases, i, processed, potential_groups) ==
    LET alias1 == normalized_aliases[i]
        similar ==
            {j \in (i + 1)..Len(normalized_aliases) :
                 /\ j \notin processed
                 /\ Above(ratio(alias1.normalized, normalized_aliases[j].normalized),
                          ClusterThreshold)}
        indexed == [k \in DOMAIN normalized_aliases |-> <<k, normalized_aliases[k]>>]
        chosen == SelectSeq(indexed, LAMBDA p : p[1] = i \/ p[1] \in similar)
        group == [k \in DOMAIN chosen |-> chosen[k][2]]
        first_shortest ==
            CHOOSE k \in DOMAIN group :
                \A j \in DOMAIN group :
                    \/ Len(group[k].normalized) < Len(group[j].normalized)
                    \/ Len(group[k].normalized) = Len(group[j].normalized) /\ k <= j
        canonical == group[first_shortest].normalized
        stored == {k \in DOMAIN potential_groups : potential_groups[k].canonical = canonical}
        entry == [canonical |-> canonical, group |-> group]
        updated ==
            IF Len(group) <= 1 THEN potential_groups
            ELSE IF stored = {} THEN Append(potential_groups, entry)
            ELSE [k \in DOMAIN potential_groups |->
                      IF k \in stored THEN entry ELSE potential_groups[k]]
    IN  IF i > Len(normalized_aliases) THEN potential_groups
        ELSE IF i \in processed
             THEN GreedyGroups_MembersStay(normalized_aliases, i + 1, processed, potential_groups)
        ELSE GreedyGroups_MembersStay(normalized_aliases, i + 1, processed \cup {i}, updated)

\* the outer loop of find_similar_aliases from index i on: an unprocessed alias
\* takes every later unprocessed alias that is similar to it; a group of two or
\* more is stored under its first shortest term
RECURSIVE GreedyGroups(_, _, _, _)
GreedyGroups(normalized_aliases, i, processed, potential_groups) ==
    LET alias1 == normalized_aliases[i]
        similar ==
            {j \in (i + 1)..Len(normalized_aliases) :
                 /\ j \notin processed
                 /\ Above(ratio(alias1.normalized, normalized_aliases[j].normalized),
                          ClusterThreshold)}
        indexed == [k \in DOMAIN normalized_aliases |-> <<k, normalized_aliases[k]>>]
        chosen == SelectSeq(indexed, LAMBDA p : p[1] = i \/ p[1] \in similar)
        group == [k \in DOMAIN chosen |-> chosen[k][2]]
        first_shortest ==
            CHOOSE k \in DOMAIN group :
                \A j \in DOMAIN group :
                    \/ Len(group[k].normalized) < Len(group[j].normalized)
                    \/ Len(group[k].normalized) = Len(group[j].normalized) /\ k <= j
        canonical == group[first_shortest].normalized
        stored == {k \in DOMAIN potential_groups : potential_groups[k].canonical = canonical}
        entry == [canonical |-> canonical, group |-> group]
        updated ==
            IF Len(group) <= 1 THEN potential_groups
            ELSE IF stored = {} THEN Append(potential_groups, entry)
            ELSE [k \in DOMAIN potential_groups |->
                      IF k \in stored THEN entry ELSE potential_groups[k]]
    IN  IF i > Len(normalized_aliases) THEN potential_groups
        ELSE IF i \in processed
             THEN GreedyGroups(normalized_aliases, i + 1, processed, potential_groups)
        ELSE GreedyGroups(normalized_aliases, i + 1, processed \cup {i} \cup similar, updated)

\* the candidate groups in insertion order, each [canonical, group]
find_similar_aliases(aliases) == GreedyGroups(NormalizedAliases(aliases), 1, {}, <<>>)

\* longest alias array of the corpora the fuzzy clusterer is run on
MaxClusterAliases == 4

CorporaCluster ==
    CorporaOver(<<IngredientRow(1, "myrrh", Txt["Myrrh"], "en"),
                  IngredientRow(2, "smyrne", Txt["myr"], "grc"),
                  IngredientRow(3, "cedar", Txt["Cedar"], "en")>>,
                { <<1, Txt["myrrh"], "en">>, <<2, Txt["myrrha"], "en">>,
                  <<2, Txt["murra"], "en">>, <<1, Txt["Myrrh (resin)"], "en">>,
                  <<3, Txt["cedar tree"], "en">>, <<2, Txt["my"], "en">>,
                  <<3, Txt["myrrh"], "grc">> },
                MaxClusterAliases)

InitCluster == \E m \in CorporaCluster : Start(m)

\* build_equivalences.py: the analysis that precedes the confirmation loop
FindSimilarAliases ==
    /\ op = "init"
    /\ op' = "find_similar_aliases"
    /\ result' = find_similar_aliases(master.aliases)
    /\ UNCHANGED <<master, before, diff, exit, ops, local, files>>

NextCluster == FindSimilarAliases

SpecCluster == InitCluster /\ [][NextCluster]_vars

\* ---- vocabulary of the clustering claim ----
Clustered == op = "find_similar_aliases"

\* two aliases are similar when the ratio of their normalized texts is above the
\* threshold in the order the clusterer compares them or in the other
SimilarAliases(a, b) ==
    \/ Above(ratio(a.normalized, b.normalized), ClusterThreshold)
    \/ Above(ratio(b.normalized, a.normalized), ClusterThreshold)

\* the candidate groups as sets of alias rows
GroupSets(potential_groups) ==
    { {potential_groups[k].group[j].original : j \in DOMAIN potential_groups[k].group} :
          k \in DOMAIN potential_groups }

Orders(s) ==
    { [k \in DOMAIN s |-> s[f[k]]] :
          f \in {g \in [DOMAIN s -> DOMAIN s] : \A j, k \in DOMAIN s : g[j] = g[k] => j = k} }

\* C20: after the analysis, any two eligible English aliases whose normalized
\* texts are similar above the threshold are members of one candidate group, and
\* every order of the same aliases yields the same candidate groups.
C20_UnionsPairs ==
    Clustered =>
        LET eligible == NormalizedAliases(master.aliases)
        IN  /\ \A j, k \in DOMAIN eligible :
                   (j # k /\ SimilarAliases(eligible[j], eligible[k])) =>
                       \E g \in GroupSets(result) :
                           eligible[j].original \in g /\ eligible[k].original \in g
            /\ \A other \in Orders(master.aliases) :
                   GroupSets(find_similar_aliases(other)) = GroupSets(result)

\* the clusterer does join what is similar to the alias that starts a group
C20_SeedGroups ==
    Clustered =>
        \A k \in DOMAIN result :
            \A j \in DOMAIN result[k].group :
                j > 1 => Above(ratio(result[k].group[1].normalized,
                                     result[k].group[j].normalized), ClusterThreshold)

\* a similar pair that the analysis left in no common group
C20_SplitPair ==
    /\ Clustered
    /\ \E j, k \in DOMAIN NormalizedAliases(master.aliases) :
           LET eligible == NormalizedAliases(master.aliases)
           IN  /\ j # k /\ SimilarAliases(eligible[j], eligible[k])
               /\ \A g \in GroupSets(result) :
                      ~(eligible[j].original \in g /\ eligible[k].original \in g)

(***************************************************************************)
(* The interactive flows: update_equivalences.py --interactive,            *)
(* build_equivalences.py and link_ingredients.py.  A flow is a sequence of *)
(* steps, one for each answer of the operator; local is the flow's memory, *)
(* op the last answer.  The prompts that follow a menu choice (group       *)
(* number, terms, name) are answered in the step of that choice: nothing   *)
(* is edited before the last of them is answered, so an interrupt at one   *)
(* of them is an interrupt at the menu.                                    *)
(***************************************************************************)
\* list(set(...)): the members once each, in an order the run chooses
ListOfSet(S) == {t \in [1..Cardinality(S) -> S] : Range(t) = S}

\* ---- update_equivalences.py: interactive ----
load_equivalences(fs) ==
    IF fs.docs_equivalences.exists THEN fs.docs_equivalences.content ELSE <<>>

save_equivalences(fs, equivalences) ==
    [fs EXCEPT !.docs_equivalences = ExistingFile(equivalences)]

InFlow(flow, pc) == local # NoLocal /\ local.flow = flow /\ local.pc = pc

StartInteractive ==
    /\ local = NoLocal
    /\ local' = [flow |-> "interactive", pc |-> "menu", started |-> files,
                 equivalences |-> load_equivalences(files)]
    /\ op' = "start"
    /\ UNCHANGED <<master, before, diff, exit, ops, result, files>>

\* choice "1": the terms are appended to the group and the duplicates removed
AddTerms(group_idx, new_terms) ==
    /\ InFlow("interactive", "menu")
    /\ group_idx \in DOMAIN local.equivalences
    /\ op' = "1"
    /\ ops' = ops + 1
    /\ IF new_terms = <<>> THEN UNCHANGED local
       ELSE \E terms \in ListOfSet(Range(local.equivalences[group_idx].terms \o new_terms)) :
                local' = [local EXCEPT !.equivalences[group_idx].terms = terms]
    /\ UNCHANGED <<master, before, diff, exit, result, files>>

\* choice "2": a new group, unless the name is empty or taken or no term is given
CreateGroup(group_name, term_list) ==
    /\ InFlow("interactive", "menu")
    /\ op' = "2"
    /\ ops' = ops + 1
    /\ IF \/ group_name = ""
          \/ group_name \in FieldValues(local.equivalences, "name")
          \/ term_list = <<>>
       THEN UNCHANGED local
       ELSE local' = [local EXCEPT
                          !.equivalences = Append(@, [name |-> group_name, terms |-> term_list])]
    /\ UNCHANGED <<master, before, diff, exit, result, files>>

SavesOnChoice_OnQuit(choice) == choice \in {"4", "q"}

\* the one menu choice that reaches save_equivalences
SavesOnChoice(choice) == choice = "4"

\* choices "3" (view), "4" (save and exit) and "q" (quit, to be confirmed)
Menu(choice) ==
    /\ InFlow("interactive", "menu")
    /\ op' = choice
    /\ IF SavesOnChoice(choice)
       THEN /\ files' = save_equivalences(files, local.equivalences)
            /\ local' = [local EXCEPT !.pc = "done"]
            /\ exit' = 0
       ELSE /\ local' = [local EXCEPT !.pc = IF choice = "q" THEN "confirm" ELSE "menu"]
            /\ UNCHANGED <<files, exit>>
    /\ UNCHANGED <<master, before, diff, ops, result>>

\* "Quit without saving? (y/n)"
ConfirmQuit(confirm) ==
    /\ InFlow("interactive", "confirm")
    /\ op' = IF confirm = "y" THEN "quit" ELSE confirm
    /\ local' = [local EXCEPT !.pc = IF confirm = "y" THEN "done" ELSE "menu"]
    /\ exit' = 0
    /\ UNCHANGED <<master, before, diff, ops, result, files>>

\* Ctrl-C at a prompt: update_equivalences catches KeyboardInterrupt and exits
\* with 1, the two other scripts let it end the process (status 130)
Interrupt ==
    /\ local # NoLocal
    /\ local.pc # "done"
    /\ op' = "interrupt"
    /\ local' = [local EXCEPT !.pc = "done"]
    /\ exit' = IF local.flow = "interactive" THEN 1 ELSE 130
    /\ UNCHANGED <<master, before, diff, ops, result, files>>

\* ---- build_equivalences.py: the confirmation loop ----
StartBuild ==
    /\ local = NoLocal
    /\ LET potential_groups == find_similar_aliases(master.aliases)
       IN  local' = [flow |-> "build", started |-> files,
                     pc |-> IF potential_groups = <<>> THEN "done" ELSE "choice",
                     potential_groups |-> potential_groups, k |-> 1,
                     approved_groups |-> <<>>]
    /\ op' = "start"
    /\ exit' = 0
    /\ UNCHANGED <<master, before, diff, ops, result, files>>

\* the ingredients of a candidate group, once each, in the order of the group
GroupIngredients(ingredients, group) ==
    LET ids == [k \in DOMAIN group |-> group[k].ingredient_id]
        firsts == SelectSeq([k \in DOMAIN ids |-> <<k, ids[k]>>],
                            LAMBDA p : \A j \in 1..(p[1] - 1) : ids[j] # p[2])
    IN  [k \in DOMAIN firsts |->
             ingredients[CHOOSE j \in DOMAIN ingredients :
                             ingredients[j].ingredient_id = firsts[k][2]]]

\* the answer to "Create equivalence group? (y/n/s to skip)", with the name and
\* the confidence asked after "y"; after the last group the approved groups are
\* saved, if there are any
Decide(choice, final_name, confidence) ==
    /\ InFlow("build", "choice")
    /\ op' = choice
    /\ LET entry == local.potential_groups[local.k]
           info == GroupIngredients(master.ingredients, entry.group)
           Approved(languages) ==
               [canonical_name |-> IF final_name = <<>> THEN entry.canonical ELSE final_name,
                confidence |-> IF confidence = "" THEN "medium" ELSE confidence,
                ingredients |-> [k \in DOMAIN info |-> info[k].label],
                slugs |-> [k \in DOMAIN info |-> info[k].slug],
                languages |-> languages]
           Proceed(approved_groups) ==
               IF local.k < Len(local.potential_groups)
               THEN /\ local' = [local EXCEPT !.k = @ + 1,
                                              !.approved_groups = approved_groups]
                    /\ UNCHANGED <<files, exit>>
               ELSE /\ local' = [local EXCEPT !.pc = "done",
                                              !.approved_groups = approved_groups]
                    /\ files' = IF approved_groups = <<>> THEN files
                                ELSE [files EXCEPT !.data_equivalences =
                                          ExistingFile([version |-> "1.0",
                                                        generated_at |-> "2025-09-02",
                                                        method |-> "interactive_review",
                                                        equivalence_groups |-> approved_groups])]
                    /\ exit' = 0
       IN  IF choice = "y"
           THEN \E languages \in ListOfSet({Get(info[k].language, "unknown") :
                                                k \in DOMAIN info}) :
                    Proceed(Append(local.approved_groups, Approved(languages)))
           ELSE IF choice \in {"n", "s"} THEN Proceed(local.approved_groups)
           ELSE UNCHANGED <<local, files, exit>>
    /\ UNCHANGED <<master, before, diff, ops, result>>

\* ---- link_ingredients.py: the linking loop ----
LinkThreshold == <<6, 10>>

normalize(text) == StripPunctuation(strip(lower(text)))

find_similar(new_label, existing_ingredients) ==
    LET all == [k \in DOMAIN existing_ingredients |->
                    [slug |-> existing_ingredients[k].slug,
                     label |-> existing_ingredients[k].label,
                     similarity |-> ratio(normalize(new_label),
                                          normalize(existing_ingredients[k].label))]]
    IN  SortByScore(SelectSeq(all, LAMBDA x : Above(x.similarity, LinkThreshold)))

\* the diff with the links applied: linked ingredients removed, their aliases
\* added, entries pointed at the existing ingredient
ApplyLinks(loc) ==
    LET d == loc.diff
        Kept(i) == \A k \in DOMAIN loc.to_remove : loc.to_remove[k] # i.slug
        Renamed(entry) ==
            LET olds == {k \in DOMAIN loc.to_remove :
                             loc.to_remove[k] = entry.ingredient_slug}
            IN  IF olds = {} THEN entry
                ELSE [entry EXCEPT !.ingredient_slug = loc.linked_to[SetMax(olds)]]
    IN  [d EXCEPT !.ingredients = SelectSeq(d.ingredients, Kept),
                  !.aliases = Get(d.aliases, <<>>) \o loc.aliases_to_add,
                  !.entries = [k \in DOMAIN d.entries |-> Renamed(d.entries[k])]]

\* the loop from ingredient number from on: it stops at the next ingredient that
\* has similar existing ingredients; after the last one the changes are applied
\* and written, the original going to the backup file
Resume(loc, fs, from) ==
    LET asked == {k \in from..Len(loc.diff.ingredients) :
                      find_similar(loc.diff.ingredients[k].label, loc.existing) # <<>>}
    IN  IF asked # {}
        THEN [local |-> [loc EXCEPT !.pc = "choice",
                                    !.k = CHOOSE k \in asked : \A j \in asked : k <= j],
              files |-> fs]
        ELSE [local |-> [loc EXCEPT !.pc = "done"],
              files |-> IF loc.to_remove = <<>> /\ loc.aliases_to_add = <<>> THEN fs
                        ELSE [fs EXCEPT !.backup = ExistingFile(fs.diff.content),
                                        !.diff = ExistingFile(ApplyLinks(loc))]]

StartLink ==
    /\ local = NoLocal
    /\ files.diff.exists
    /\ LET loc == [flow |-> "link", started |-> files, pc |-> "done",
                   diff |-> files.diff.content, existing |-> master.ingredients, k |-> 1,
                   to_remove |-> <<>>, linked_to |-> <<>>, aliases_to_add |-> <<>>]
           next == Resume(loc, files, 1)
       IN  /\ local' = next.local
           /\ files' = next.files
    /\ op' = "start"
    /\ exit' = 0
    /\ UNCHANGED <<master, before, diff, ops, result>>

\* the answer to "Link to existing? (1-5, 'n' for new ingredient)": choice 0
\* stands for 'n'; any other answer is asked again
Answer(choice) ==
    /\ InFlow("link", "choice")
    /\ op' = IF choice = 0 THEN "n" ELSE "link"
    /\ LET ingredient == local.diff.ingredients[local.k]
           matches == find_similar(ingredient.label, local.existing)
           shown == SubSeq(matches, 1, IF Len(matches) < 5 THEN Len(matches) ELSE 5)
           chosen == matches[choice]
           linked ==
               [local EXCEPT
                    !.to_remove = Append(@, ingredient.slug),
                    !.linked_to = Append(@, chosen.slug),
                    !.aliases_to_add =
                        Append(@, [ingredient_slug |-> chosen.slug,
                                   variant_label |-> ingredient.label,
                                   language |-> GetNone(ingredient.language),
                                   source |-> "linked by tool"])]
           next == Resume(IF choice = 0 THEN local ELSE linked, files, local.k + 1)
       IN  /\ choice \in 0..Len(shown)
           /\ local' = next.local
           /\ files' = next.files
    /\ exit' = 0
    /\ UNCHANGED <<master, before, diff, ops, result>>

\* ---- the specification of the flows ----
\* most edits of one interactive session
MaxEdits == 2

\* the corpus, docs/equivalences.json and the diff file before the flow
InitInteractive ==
    LET ingredients == <<IngredientRow(1, "myrrh", Txt["Myrrh"], "en"),
                         IngredientRow(2, "smyrne", Txt["myr"], "grc"),
                         IngredientRow(3, "cedar", Txt["Cedar"], Absent)>>
        Corpus(specs) == [recipes |-> <<>>, ingredients |-> ingredients,
                          aliases |-> AliasRows(specs), entries |-> <<>>]
        corpora ==
            { Corpus(<<>>),
              Corpus(<< <<1, Txt["myrrh"], "en">>, <<2, Txt["myrrha"], "en">> >>),
              Corpus(<< <<1, Txt["myrrh"], "en">>, <<2, Txt["myrrha"], "en">>,
                        <<3, Txt["cedar"], "en">>, <<1, Txt["cedar tree"], "en">> >>) }
        myrrha == [slug |-> "myrrha", label |-> Txt["myrrha"], language |-> "la"]
        wan == [slug |-> "wan", label |-> Txt["wan"], language |-> Absent]
        kedros == [slug |-> "kedros", label |-> Txt["cedar"], language |-> "grc"]
        diffs ==
            { [recipes |-> <<>>, ingredients |-> <<myrrha>>, aliases |-> Absent,
               entries |-> <<[recipe_slug |-> "kyphi-28", ingredient_slug |-> "myrrha"]>>],
              [recipes |-> <<>>, ingredients |-> <<wan, myrrha, kedros>>,
               aliases |-> <<[ingredient_slug |-> "myrrha", variant_label |-> Txt["murra"],
                              language |-> "la", source |-> Null]>>,
               entries |-> <<[recipe_slug |-> "kyphi-28", ingredient_slug |-> "kedros"]>>],
              [recipes |-> <<>>, ingredients |-> <<>>, aliases |-> <<>>, entries |-> <<>>] }
        equivalence_files ==
            {NoFile, ExistingFile(<<[name |-> "myrrh", terms |-> <<"myrrh", "stakte">>]>>)}
    IN  \E m \in corpora, eq \in equivalence_files, d \in diffs :
            /\ master = m
            /\ before = m
            /\ diff = NoDiff
            /\ op = "init"
            /\ exit = 0
            /\ ops = 0
            /\ result = NoResult
            /\ local = NoLocal
            /\ files = [NoFiles EXCEPT !.docs_equivalences = eq, !.diff = ExistingFile(d)]

NextInteractive ==
    \/ StartInteractive
    \/ /\ ops < MaxEdits
       /\ \E group_idx \in 1..2, new_terms \in {<<>>, <<"stakte">>, <<"smyrna", "myrrh">>} :
              AddTerms(group_idx, new_terms)
    \/ /\ ops < MaxEdits
       /\ \E group_name \in {"", "myrrh", "cedar"}, term_list \in {<<>>, <<"cedar", "kedros">>} :
              CreateGroup(group_name, term_list)
    \/ \E choice \in {"3", "4", "q"} : Menu(choice)
    \/ \E confirm \in {"y", "n"} : ConfirmQuit(confirm)
    \/ Interrupt
    \/ StartBuild
    \/ \E choice \in {"y", "n", "s", "x"}, final_name \in {<<>>, Txt["stakte"]},
          confidence \in {"", "high", "sure"} :
           Decide(choice, final_name, confidence)
    \/ StartLink
    \/ \E choice \in 0..2 : Answer(choice)

SpecInteractive == InitInteractive /\ [][NextInteractive]_vars

\* ---- vocabulary of the abort claim ----
\* the operator interrupted the flow, or chose or confirmed "quit without saving"
Aborted == local # NoLocal /\ op \in {"interrupt", "q", "quit"}

\* the flow holds edits that are not on disk
UnsavedEdits ==
    /\ local # NoLocal
    /\ \/ local.flow = "interactive" /\ local.equivalences # load_equivalences(local.started)
       \/ local.flow = "build" /\ local.approved_groups # <<>>
       \/ local.flow = "link" /\ local.to_remove # <<>>

\* C13: once the operator has aborted a flow (an interrupt at a prompt, or "q",
\* also when confirmed with "y"), the equivalence files, the diff file, its backup
\* and the corpus are what they were when the flow started, whatever the flow
\* holds in memory.
C13_AbortWritesNothing == Aborted => (files = local.started /\ master = before)

C13_Witness ==
    /\ Aborted /\ UnsavedEdits
    /\ local.flow = "interactive" /\ op = "quit" /\ local.pc = "done"

\* an interrupted confirmation loop and an interrupted linking loop with edits
C13_BuildInterrupted == Aborted /\ UnsavedEdits /\ local.flow = "build"

C13_LinkInterrupted == Aborted /\ UnsavedEdits /\ local.flow = "link"

\* the flows do write when they reach their save step
C13_Saved == local # NoLocal /\ files # local.started

(***************************************************************************)
(* C14.  Fatal failures write nothing: the corpus file changes only in the *)
(* step in which an invocation of merge or remove_diff, none of whose four *)
(* steps has raised, ends with status 0; an invocation ends once; and when *)
(* an invocation ends because a load failed or a step raised, the file is  *)
(* unchanged and the status is nonzero.                                    *)
(***************************************************************************)
\* invocation p ends in this step
Ends(p) == local[p].pc # "done" /\ local'[p].pc = "done"

\* the invocation that ends fails: it could not load, or a step raises
Fails(p) ==
    \/ local[p].pc = "idle"
    \/ Run(local[p].script, local[p].master, local[p].diff).raised

C14_FatalWritesNothing ==
    [][ /\ master' # master =>
               \E p \in Invocations : Ends(p) /\ ~Fails(p) /\ local'[p].exit = 0
        /\ \A p \in Invocations :
               /\ (Ends(p) /\ Fails(p)) =>
                      (master' = master /\ local'[p].exit # 0 /\ exit' # 0)
               /\ local[p].pc = "done" => local'[p] = local[p] ]_vars

\* a merge that raised in its second step, after it had added a recipe to its
\* copy: the file is what was loaded
C14_Witness ==
    \E p \in Invocations :
        LET res == Run(local[p].script, local[p].master, local[p].diff)
        IN  /\ local[p].pc = "done" /\ local[p].script = "merge"
            /\ res.raised /\ res.master # local[p].master
            /\ master = local[p].master /\ exit = 1 /\ local[p].exit = 1

\* an invocation that could not load its files
C14_LoadFailed ==
    \E p \in Invocations :
        local[p].pc = "done" /\ local[p].diff = NoDiff /\ local[p].exit = 1 /\ master = before

(***************************************************************************)
(* C15.  Cascade within one pass: a removal whose diff names an ingredient *)
(* together with every entry and every alias that references it deletes   *)
(* that ingredient in the same pass, and one whose diff names a recipe     *)
(* together with every entry that references it deletes that recipe.  An  *)
(* entry is named as step 1 matches it (a missing key, null and "" being   *)
(* one value).                                                             *)
(***************************************************************************)
NamesAlias(a, x) ==
    /\ a.ingredient_slug = SlugOfId(before.ingredients, "ingredient_id", x.ingredient_id)
    /\ a.variant_label = x.variant_label

\* every entry of the loaded corpus that holds id under key is named by the diff
EntriesNamed(key, id) ==
    \A x \in Range(before.entries) :
        x[key] = id => \E e \in Range(diff.entries) : NamesEntry(e, x, SameWhenEmptyIsNull)

AliasesNamed(id) ==
    \A x \in Range(before.aliases) :
        x.ingredient_id = id => \E a \in Range(diff.aliases) : NamesAlias(a, x)

C15_CascadeInOnePass ==
    Removed =>
        /\ \A i \in Range(before.ingredients) :
               (/\ NamedIn(diff.ingredients, i)
                /\ EntriesNamed("ingredient_id", i.ingredient_id)
                /\ AliasesNamed(i.ingredient_id))
               => i \notin Range(master.ingredients)
        /\ \A r \in Range(before.recipes) :
               (NamedIn(diff.recipes, r) /\ EntriesNamed("recipe_id", r.recipe_id))
               => r \notin Range(master.recipes)

\* a removal deleted an ingredient that an entry and an alias referenced, and a
\* recipe that an entry referenced, with those rows
C15_Witness ==
    /\ Removed
    /\ \E i \in Range(before.ingredients) :
           /\ NamedIn(diff.ingredients, i)
           /\ i.ingredient_id \in FieldValues(before.entries, "ingredient_id")
           /\ i.ingredient_id \in FieldValues(before.aliases, "ingredient_id")
           /\ EntriesNamed("ingredient_id", i.ingredient_id)
           /\ AliasesNamed(i.ingredient_id)
           /\ i \notin Range(master.ingredients)
    /\ \E r \in Range(before.recipes) :
           /\ NamedIn(diff.recipes, r)
           /\ r.recipe_id \in FieldValues(before.entries, "recipe_id")
           /\ EntriesNamed("recipe_id", r.recipe_id)
           /\ r \notin Range(master.recipes)

(***************************************************************************)
(* Removal followed by merge.  The merge records in result the invocation  *)
(* that ran before it: its script, the corpus it had loaded and its status. *)
(***************************************************************************)
\* most invocations of one run
MaxReuseOps == 3

\* merge_diff.py, with the record of the invocation before it
MergeRecorded(d) ==
    LET res == merge(master, d)
    IN  /\ ops' = ops + 1
        /\ before' = master
        /\ diff' = d
        /\ op' = "merge"
        /\ master' = FileAfter(master, res)
        /\ exit' = IF res.raised THEN 1 ELSE 0
        /\ result' = [op |-> op, before |-> before, exit |-> exit]
        /\ UNCHANGED <<local, files>>

\* the diffs that name recipes and ingredients
NextReuse ==
    \/ \E d \in {x \in DiffsStruct : x.recipes # <<>>} : ops < MaxReuseOps /\ RemoveDiff(d)
    \/ \E d \in {x \in DiffsStruct : x.recipes # <<>>} : ops < MaxReuseOps /\ MergeRecorded(d)

SpecReuse == Init /\ [][NextReuse]_vars

\* ---- vocabulary of the id reuse claim ----
IdKeys ==
    { <<"recipes", "recipe_id">>, <<"ingredients", "ingredient_id">>,
      <<"aliases", "alias_id">>, <<"entries", "entry_id">> }

\* the last invocation is a merge that ran right after a removal
MergedAfterRemoval ==
    /\ Merged
    /\ result.op = "remove" /\ result.exit = 0

\* the highest id of the set before the removal
HighestBefore(set, key) == SetMax(FieldValues(result.before[set], key))

\* the removal deleted the row that held the highest id of the set
DeletedHighest(set, key) ==
    /\ result.before[set] # <<>>
    /\ HighestBefore(set, key) \notin FieldValues(before[set], key)

\* the first row the merge appended to the set
FirstInserted(set) == master[set][Len(before[set]) + 1]

\* the merge appended a row to the set and chose its id: the diff item the row was
\* made of carries no id of its own
InsertedWithNewId(set, key) ==
    /\ Len(master[set]) > Len(before[set])
    /\ set \in {"recipes", "ingredients"} =>
           LET named == {k \in DOMAIN diff[set] : diff[set][k].slug = FirstInserted(set).slug}
               first == CHOOSE k \in named : \A j \in named : k <= j
           IN  diff[set][first][key] = <<>>

\* the row holding the id just below the deleted one survived the removal, or the
\* deleted row was the only one and held id 1
PredecessorSurvives(set, key) ==
    IF before[set] = <<>> THEN HighestBefore(set, key) = 1
    ELSE SetMax(FieldValues(before[set], key)) = HighestBefore(set, key) - 1

\* C16: when a removal has deleted the row holding the highest id of an entity
\* set, the first row to which the next merge gives an id in that set gets the
\* highest surviving id plus one (1 in an emptied set): never more than the
\* deleted row's id, and that very id when the id just below it survived.
C16_IdReuse ==
    MergedAfterRemoval =>
        \A sk \in IdKeys :
            (DeletedHighest(sk[1], sk[2]) /\ InsertedWithNewId(sk[1], sk[2])) =>
                LET id == FirstInserted(sk[1])[sk[2]]
                IN  /\ id = IF before[sk[1]] = <<>> THEN 1
                            ELSE SetMax(FieldValues(before[sk[1]], sk[2])) + 1
                    /\ id <= HighestBefore(sk[1], sk[2])
                    /\ PredecessorSurvives(sk[1], sk[2]) => id = HighestBefore(sk[1], sk[2])

\* a removal deleted recipe 2 of recipes 1 and 2, and the merge after it gave
\* recipe_id 2 to a row with other fields
C16_Witness ==
    /\ MergedAfterRemoval
    /\ DeletedHighest("recipes", "recipe_id")
    /\ InsertedWithNewId("recipes", "recipe_id")
    /\ HighestBefore("recipes", "recipe_id") = 2
    /\ FirstInserted("recipes").recipe_id = 2
    /\ \E r \in Range(result.before.recipes) :
           r.recipe_id = 2 /\ r.label # FirstInserted("recipes").label

\* a removal deleted the highest and the next lower id: the merge after it gave a
\* lower id than the highest deleted one
C16_LowerId ==
    /\ MergedAfterRemoval
    /\ \E sk \in IdKeys :
           /\ DeletedHighest(sk[1], sk[2]) /\ InsertedWithNewId(sk[1], sk[2])
           /\ FirstInserted(sk[1])[sk[2]] < HighestBefore(sk[1], sk[2])

(***************************************************************************)
(* C19.  Exit status of the lookups: a search (ingredient_db.py --search,  *)
(* assist_ingestion.py --fuzzy-match) ends with a nonzero status when it   *)
(* finds no match and with status 0 when it finds one.                     *)
(***************************************************************************)
C19_ExitStatus == op \in {"search", "fuzzy_match"} => (exit # 0 <=> result = <<>>)

\* a search that found nothing and ended with status 0
C19_NothingFoundStatusZero == op \in {"search", "fuzzy_match"} /\ result = <<>> /\ exit = 0

\* what the lookups do: status 0 whether or not something is found
C19_AlwaysZero == op \in {"search", "fuzzy_match"} => exit = 0

\* the required fields that the items of d lack
MissingFields(d) ==
    {t \in {"recipes", "ingredients", "aliases", "entries"} \X (1..2) \X (1..2) :
        /\ t[2] \in DOMAIN d[t[1]]
        /\ ~HasKey(d[t[1]][t[2]], required_fields(t[1])[t[3]])}

SchemaErrorsOf(report) ==
    SelectSeq(report.errors, LAMBDA x : x = "missing required field")

(***************************************************************************)
(* C21.  The validator reports structural errors as a result: for every    *)
(* diff in which some item lacks a required field (slug, label,            *)
(* ingredient_slug, recipe_slug, variant_label), validate_diff runs to     *)
(* completion and returns ok = false with one missing-field error for each *)
(* field that is lacking; no exception leaves it.                          *)
(***************************************************************************)
C21_ReportsMissingFields ==
    (Validated /\ MissingRequired(diff)) =>
        /\ ~result.raised
        /\ ~result.ok
        /\ Len(SchemaErrorsOf(result)) = Cardinality(MissingFields(diff))

\* what the code does: the report is returned exactly when no lacking field is
\* one that the later checks subscript, and then it counts every lacking field
C21_ReportsUnlessSubscripted ==
    (Validated /\ MissingRequired(diff)) =>
        /\ result.raised <=> ValidateRaises(diff)
        /\ ~result.raised =>
               /\ ~result.ok
               /\ exit = 1
               /\ Len(SchemaErrorsOf(result)) = Cardinality(MissingFields(diff))

\* an alias without variant_label, the one required field no check subscripts,
\* was reported in a returned result
C21_MissingReported ==
    /\ Validated
    /\ MissingRequired(diff)
    /\ ~result.raised /\ ~result.ok
    /\ SchemaErrorsOf(result) # <<>>

\* a recipe without slug: the KeyError left validate_diff
C21_MissingRaised ==
    /\ Validated
    /\ \E k \in DOMAIN diff.recipes : diff.recipes[k].slug = Absent
    /\ result.raised
    /\ exit = 1

\* the slugs that the diff defines and the corpus did not hold
NewSlugs(old, items) == FieldValues(items, "slug") \ FieldValues(old, "slug")

\* the aliases and entries of the diff that refer to a row the diff itself brings,
\* their other reference being resolvable
SameDiffAliases ==
    {a \in Range(diff.aliases) :
        a.ingredient_slug \in NewSlugs(before.ingredients, diff.ingredients)}

SameDiffEntries ==
    {e \in Range(diff.entries) :
        /\ e.recipe_slug \in KnownSlugs(before.recipes, diff.recipes)
        /\ e.ingredient_slug \in KnownSlugs(before.ingredients, diff.ingredients)
        /\ \/ e.recipe_slug \in NewSlugs(before.recipes, diff.recipes)
           \/ e.ingredient_slug \in NewSlugs(before.ingredients, diff.ingredients)}

\* each of them is among the rows the merge appended, under the id of the row that
\* the merge appended for its slug
SameDiffReferencesInserted ==
    /\ \A a \in SameDiffAliases :
           \E row \in Range(Appended(before.aliases, master.aliases)) :
               /\ row.ingredient_id =
                      IdOfSlug(Appended(before.ingredients, master.ingredients),
                               "ingredient_id", a.ingredient_slug)
               /\ row.variant_label = a.variant_label
    /\ \A e \in SameDiffEntries :
           \E row \in Range(Appended(before.entries, master.entries)) :
               RowEntryKey(row) = ResolvedEntryKey(e)

\* no recipe and no ingredient of the diff carries an id key
CarriesNoId(d) ==
    /\ \A r \in Range(d.recipes) : r.recipe_id = <<>>
    /\ \A i \in Range(d.ingredients) : i.ingredient_id = <<>>

(***************************************************************************)
(* C22.  The order of the merge steps makes references within one diff     *)
(* resolvable: an alias or entry of the diff that refers to a recipe or    *)
(* ingredient slug absent from the corpus and defined in the same diff is  *)
(* inserted by that merge, under the id the merge gave the new row.        *)
(***************************************************************************)
C22_SameDiffReferences == Merged => SameDiffReferencesInserted

\* the same, of the diffs whose recipes and ingredients carry no id key
C22_WithoutCarriedIds == (Merged /\ CarriesNoId(diff)) => SameDiffReferencesInserted

\* a merge into a corpus that holds rows appended a recipe, an ingredient, and the
\* alias and the entry that refer to them
C22_Inserted ==
    /\ Merged
    /\ before.recipes # <<>> /\ before.aliases # <<>>
    /\ CarriesNoId(diff)
    /\ SameDiffAliases # {}
    /\ \E e \in SameDiffEntries :
           /\ e.recipe_slug \in NewSlugs(before.recipes, diff.recipes)
           /\ e.ingredient_slug \in NewSlugs(before.ingredients, diff.ingredients)
    /\ Len(master.aliases) = Len(before.aliases) + 1
    /\ Len(master.entries) = Len(before.entries) + 1

\* a merge appended an ingredient under an id carried by the diff and dropped the
\* alias of the same diff that refers to it
C22_Dropped ==
    /\ Merged
    /\ SameDiffAliases # {}
    /\ master.ingredients # before.ingredients
    /\ master.aliases = before.aliases

\* the rows of old that the removal deleted
Deleted(old, new) == Range(old) \ Range(new)

\* new is old without its deleted rows: the others with every field, in their order
Survive(old, new) == new = SelectSeq(old, LAMBDA row : row \in Range(new))

\* some alias / entry tuple of the diff has the slugs and values of the row x
AliasTupleOf(x) ==
    \E a \in Range(diff.aliases) : \E i \in Range(before.ingredients) :
        /\ i.ingredient_id = x.ingredient_id
        /\ i.slug = a.ingredient_slug
        /\ a.variant_label = x.variant_label

EntryTupleOf(x) ==
    \E e \in Range(diff.entries) :
        \E r \in Range(before.recipes) : \E i \in Range(before.ingredients) :
            /\ r.recipe_id = x.recipe_id /\ r.slug = e.recipe_slug
            /\ i.ingredient_id = x.ingredient_id /\ i.slug = e.ingredient_slug
            /\ SameWhenEmptyIsNull(x.amount_raw, e.amount_raw)
            /\ SameWhenEmptyIsNull(x.preparation, e.preparation)

(***************************************************************************)
(* C23.  Removal touches only what the diff names: remove_diff deletes no  *)
(* recipe and no ingredient whose slug the diff does not list, also when   *)
(* nothing refers to the row after the pass, and no alias and no entry     *)
(* that matches no tuple of the diff (a missing key, null and "" being one *)
(* value, as step 1 compares them); the surviving rows keep their ids,     *)
(* their fields and their order.                                           *)
(***************************************************************************)
C23_OnlyWhatIsNamed ==
    Removed =>
        /\ \A r \in Deleted(before.recipes, master.recipes) : NamedIn(diff.recipes, r)
        /\ \A i \in Deleted(before.ingredients, master.ingredients) :
               NamedIn(diff.ingredients, i)
        /\ \A a \in Deleted(before.aliases, master.aliases) : AliasTupleOf(a)
        /\ \A e \in Deleted(before.entries, master.entries) : EntryTupleOf(e)
        /\ Survive(before.recipes, master.recipes)
        /\ Survive(before.ingredients, master.ingredients)
        /\ Survive(before.aliases, master.aliases)
        /\ Survive(before.entries, master.entries)

\* a removal deleted a recipe, an ingredient, an alias and an entry and left a
\* recipe and an ingredient that the diff does not name and that nothing refers to
C23_Witness ==
    /\ Removed
    /\ Deleted(before.recipes, master.recipes) # {}
    /\ Deleted(before.ingredients, master.ingredients) # {}
    /\ Deleted(before.aliases, master.aliases) # {}
    /\ Deleted(before.entries, master.entries) # {}
    /\ \E r \in Range(master.recipes) :
           /\ ~NamedIn(diff.recipes, r)
           /\ r.recipe_id \notin FieldValues(master.entries, "recipe_id")
    /\ \E i \in Range(master.ingredients) :
           /\ ~NamedIn(diff.ingredients, i)
           /\ i.ingredient_id \notin FieldValues(master.entries, "ingredient_id")
                                         \cup FieldValues(master.aliases, "ingredient_id")

\* the confidence levels of an equivalence group
ConfidenceLevels == {"high", "medium", "low"}

\* the groups of data/equivalences.json as the interactive builder wrote it
PersistedGroups ==
    IF files.data_equivalences.exists
    THEN Range(files.data_equivalences.content.equivalence_groups)
    ELSE {}

(***************************************************************************)
(* C24.  Every equivalence group that a clustering strategy persists has   *)
(* a confidence in {high, medium, low}, whatever the operator types at the *)
(* confidence prompt of the interactive builder.                           *)
(***************************************************************************)
C24_ConfidenceLevels == \A g \in PersistedGroups : g.confidence \in ConfidenceLevels

\* the exact strategy: every group it writes is high or medium
C24_GeneratedLevels ==
    op = "generate" => \A g \in Range(result) : g.confidence \in {"high", "medium"}

\* the interactive builder saved a group whose confidence is the text typed at the
\* prompt, which is no level
C24_TypedTextSaved == \E g \in PersistedGroups : g.confidence = "sure"

\* an empty answer at the prompt was saved as medium
C24_DefaultSaved == \E g \in PersistedGroups : g.confidence = "medium"

\* no two rows of the sequence hold one id under key
UniqueKey(rows, key) ==
    \A j, k \in DOMAIN rows : rows[j][key] = rows[k][key] => j = k

UniqueIds(m) ==
    /\ UniqueKey(m.recipes, "recipe_id")
    /\ UniqueKey(m.ingredients, "ingredient_id")
    /\ UniqueKey(m.aliases, "alias_id")
    /\ UniqueKey(m.entries, "entry_id")

(***************************************************************************)
(* C25.  Surrogate ids are unique within each entity set: from a corpus    *)
(* in which no two rows of one set share an id, after any sequence of      *)
(* merges and removals (removals of the highest-id row followed by         *)
(* insertions included) no two recipes share a recipe_id, no two           *)
(* ingredients an ingredient_id, no two aliases an alias_id and no two     *)
(* entries an entry_id.                                                    *)
(***************************************************************************)
C25_UniqueIds == UniqueIds(master)

\* what the code keeps: one operation on a corpus with unique ids leaves the ids
\* unique when no recipe and no ingredient of its diff carries an id key
C25_UniquePreserved ==
    [][(UniqueIds(master) /\ CarriesNoId(diff')) => UniqueIds(master')]_vars

\* the ids of aliases and entries, which merge never takes from the diff, are unique
C25_AliasAndEntryIds ==
    UniqueKey(master.aliases, "alias_id") /\ UniqueKey(master.entries, "entry_id")

\* a merge stored a recipe and an ingredient under ids that other rows hold
C25_SharedId ==
    /\ Merged
    /\ UniqueIds(before)
    /\ ~UniqueKey(master.recipes, "recipe_id")
    /\ ~UniqueKey(master.ingredients, "ingredient_id")

(***************************************************************************)
(* Validation followed by merge.  The operator runs validate_diff.py on a  *)
(* diff file and then merge_diff.py on the same file, whatever the         *)
(* validator said, before turning to the next file; result keeps the       *)
(* validator's report through the merge.                                   *)
(* The diff is held as merge reads it; the validator is given the same     *)
(* items with their labels as characters.                                  *)
(***************************************************************************)
MaxSoundOps == 2

\* validate_diff.py on the file d
ValidateFile(d) ==
    LET Chars(label) == IF label = Absent THEN AbsentText
                        ELSE IF label = Null THEN NullText ELSE Txt[label]
        data == [d EXCEPT
                    !.recipes = [k \in DOMAIN @ |-> [@[k] EXCEPT !.label = Chars(@)]],
                    !.ingredients = [k \in DOMAIN @ |->
                                        [slug |-> @[k].slug, label |-> Chars(@[k].label),
                                         ingredient_id |-> @[k].ingredient_id,
                                         language |-> Absent]]]
        report == validate_diff(data)
    IN  /\ ops < MaxSoundOps
        /\ op # "validate"
        /\ diff' = d
        /\ op' = "validate"
        /\ result' = report
        /\ exit' = IF report.raised \/ ~report.ok THEN 1 ELSE 0
        /\ UNCHANGED <<master, before, ops, local, files>>

\* merge_diff.py on the file that was validated
MergeValidated ==
    LET res == merge(master, diff)
    IN  /\ op = "validate"
        /\ ops' = ops + 1
        /\ before' = master
        /\ op' = "merge"
        /\ master' = FileAfter(master, res)
        /\ exit' = IF res.raised THEN 1 ELSE 0
        /\ UNCHANGED <<diff, result, local, files>>

\* the diff files: recipes and ingredients new to the corpus or known to it, an item
\* without slug; aliases and entries that refer to the diff's own rows or to rows of
\* the corpus only; an alias and an entry twice
NextSound ==
    \/ \E r \in { <<>>, <<RecipeItem("kyphi-28", "Kyphi")>>, <<RecipeItem("kyphi-0", "Kyphi")>>,
                  <<RecipeItem(Absent, "Kyphi")>> },
          i \in { <<>>, <<IngredientItem("myrrh", "Myrrh")>>,
                  <<IngredientItem("cedar", "Cedar"), IngredientItem("myrrh", "Honey")>> },
          a \in { <<>>, <<AliasItem("myrrh", "stakte")>>,
                  <<AliasItem("cedar", "kedros"), AliasItem("cedar", "kedros")>>,
                  <<AliasItem("honey", "meli")>> },
          e \in { <<>>, <<EntryItem("kyphi-28", "myrrh", "2 hin", Null)>>,
                  <<EntryItem("kyphi-0", "cedar", "2 hin", Absent),
                    EntryItem("kyphi-0", "cedar", "2 hin", "")>> } :
           ValidateFile(Diff(r, i, a, e))
    \/ MergeValidated

SpecSound == InitValidate /\ [][NextSound]_vars

\* the merge that has just run was of a diff the validator passed
MergedValidated == op = "merge" /\ ~result.raised /\ result.ok

(***************************************************************************)
(* C26.  The validator is sound with respect to merge: for every diff on   *)
(* which validate_diff returns ok = true, and every corpus, the merge of   *)
(* that diff drops no alias and no entry for an unresolved slug reference: *)
(* it ends normally, every alias and every entry of the diff resolves, and *)
(* each is either inserted or skipped as a duplicate, so that the corpus   *)
(* holds a row for it afterwards.                                          *)
(***************************************************************************)
C26_ValidatorSound ==
    MergedValidated =>
        /\ exit = 0
        /\ ResolvableAliases = DOMAIN diff.aliases
        /\ ResolvableEntries = DOMAIN diff.entries
        /\ Len(Appended(before.aliases, master.aliases)) = Cardinality(InsertableAliases)
        /\ Len(Appended(before.entries, master.entries)) = Cardinality(InsertableEntries)
        /\ \A a \in Range(diff.aliases) :
               \E row \in Range(master.aliases) :
                   <<row.ingredient_id, row.variant_label>> = ResolvedAliasKey(a)
        /\ \A e \in Range(diff.entries) :
               \E row \in Range(master.entries) : RowEntryKey(row) = ResolvedEntryKey(e)

\* a passed diff whose aliases and entries refer to rows that only the diff brings
\* was merged into a corpus that holds other rows: one alias and one entry were
\* inserted, one of each was skipped as a duplicate
C26_Witness ==
    /\ MergedValidated
    /\ before.recipes # <<>>
    /\ Len(diff.aliases) = 2 /\ Len(diff.entries) = 2
    /\ \A a \in Range(diff.aliases) :
           a.ingredient_slug \in NewSlugs(before.ingredients, diff.ingredients)
    /\ \A e \in Range(diff.entries) :
           e.recipe_slug \in NewSlugs(before.recipes, diff.recipes)
    /\ Len(master.aliases) = Len(before.aliases) + 1
    /\ Len(master.entries) = Len(before.entries) + 1

\* a diff the validator failed for a reference to a row of the corpus was merged,
\* and its alias was inserted
C26_FailedYetMerged ==
    /\ op = "merge" /\ exit = 0
    /\ ~result.raised /\ ~result.ok
    /\ \E a \in Range(diff.aliases) :
           a.ingredient_slug \notin FieldValues(diff.ingredients, "slug")
    /\ Len(master.aliases) > Len(before.aliases)

\* a merge of a diff that holds one entry, whose slugs name rows of the corpus
MergedOneEntry ==
    /\ Merged
    /\ Len(diff.entries) = 1
    /\ diff.entries[1].recipe_slug \in FieldValues(before.recipes, "slug")
    /\ diff.entries[1].ingredient_slug \in FieldValues(before.ingredients, "slug")

\* merge skipped the entry as a duplicate of a stored one
SkippedAsDuplicate == master.entries = before.entries

\* the stored entries that remove_diff, given the same corpus and diff, deletes
MatchedByRemoval ==
    Range(before.entries) \ Range(remove_diff(before, diff).master.entries)

(***************************************************************************)
(* C28.  Merge and removal agree on the identity of an entry: for a stored *)
(* entry s and a diff entry e of the same recipe and ingredient, merge     *)
(* skips e as a duplicate of s if and only if remove_diff deletes s as     *)
(* matching e, for every combination of a missing, null, empty and         *)
(* non-empty amount_raw and preparation.                                   *)
(***************************************************************************)
C28_SameIdentity == MergedOneEntry => (SkippedAsDuplicate <=> MatchedByRemoval # {})

\* the direction that holds: an entry merge skips as a duplicate is matched by
\* remove_diff
C28_DuplicateIsMatched == (MergedOneEntry /\ SkippedAsDuplicate) => MatchedByRemoval # {}

\* merge inserted an entry without amount_raw next to a stored entry whose
\* amount_raw is null, and remove_diff with the same diff deletes that stored entry
C28_Disagree ==
    /\ MergedOneEntry
    /\ ~SkippedAsDuplicate
    /\ diff.entries[1].amount_raw = Absent
    /\ \E s \in MatchedByRemoval : s.amount_raw = Null

\* merge skipped an entry whose preparation is "" as a duplicate of a stored entry
\* whose preparation is null, and remove_diff deletes that entry as well
C28_Agree ==
    /\ MergedOneEntry
    /\ SkippedAsDuplicate
    /\ diff.entries[1].preparation = ""
    /\ \E s \in MatchedByRemoval : s.preparation = Null

\* the merge that has just run was of a diff none of whose recipe slugs, ingredient
\* slugs, alias tuples and entry tuples the corpus held (an entry tuple being held
\* when remove_diff would match a stored entry with it)
MergedFresh ==
    /\ Merged
    /\ FieldValues(diff.recipes, "slug") \cap FieldValues(before.recipes, "slug") = {}
    /\ FieldValues(diff.ingredients, "slug") \cap FieldValues(before.ingredients, "slug") = {}
    /\ \A x \in Range(before.aliases) : ~AliasTupleOf(x)
    /\ \A x \in Range(before.entries) : ~EntryTupleOf(x)

\* the next operation is remove_diff with the diff that was merged
RemovesTheSame == op' = "remove" /\ exit' = 0 /\ diff' = diff

(***************************************************************************)
(* C27.  Removal inverts merge on fresh data: for a corpus C and a diff D  *)
(* such that C holds no recipe slug, ingredient slug, alias tuple or entry *)
(* tuple of D, merging D into C and then running remove_diff with D gives  *)
(* a corpus with exactly the rows of C: the same ids, fields and order.    *)
(***************************************************************************)
C27_RemovalInvertsMerge == [][(MergedFresh /\ RemovesTheSame) => master' = before]_vars

\* the same, of the diffs whose recipes and ingredients carry no id key
C27_WithoutCarriedIds ==
    [][(MergedFresh /\ CarriesNoId(diff) /\ RemovesTheSame) => master' = before]_vars

\* a removal left a recipe and an ingredient that its diff names with an id, each
\* under an id that another row holds too
C27_LeftBehind ==
    /\ Removed
    /\ \E r \in Range(master.recipes) : \E x \in Range(diff.recipes) :
           /\ x.slug = r.slug /\ x.recipe_id # <<>>
           /\ \E y \in Range(master.recipes) : y.slug # r.slug /\ y.recipe_id = r.recipe_id
    /\ \E i \in Range(master.ingredients) : \E x \in Range(diff.ingredients) :
           /\ x.slug = i.slug /\ x.ingredient_id # <<>>
           /\ \E y \in Range(master.ingredients) :
                  y.slug # i.slug /\ y.ingredient_id = i.ingredient_id

\* process_diff has linked ingredients and, the last ingredient answered, has
\* rewritten the diff file
Rewritten ==
    /\ local # NoLocal
    /\ local.flow = "link" /\ local.pc = "done"
    /\ op \in {"n", "link"}
    /\ local.to_remove # <<>>

\* the ingredient_slug values of the entries and of the aliases of the diff file
EntrySlugsOnDisk == FieldValues(files.diff.content.entries, "ingredient_slug")

AliasSlugsOnDisk == FieldValues(files.diff.content.aliases, "ingredient_slug")

BackupIsOriginal == files.backup = ExistingFile(local.started.diff.content)

(***************************************************************************)
(* C29.  After process_diff has linked ingredients and rewritten the diff, *)
(* no entry and no alias of the rewritten diff has an ingredient_slug      *)
(* equal to a removed slug, and the .backup file holds the diff exactly as *)
(* it was before the rewrite.                                              *)
(***************************************************************************)
C29_NoRemovedSlug ==
    Rewritten =>
        /\ EntrySlugsOnDisk \cap Range(local.to_remove) = {}
        /\ AliasSlugsOnDisk \cap Range(local.to_remove) = {}
        /\ BackupIsOriginal

\* what the code keeps: the entries are pointed at the existing ingredient, the
\* removed ingredients are gone from the ingredients array, and the backup is the
\* original diff
C29_EntriesAndBackup ==
    Rewritten =>
        /\ EntrySlugsOnDisk \cap Range(local.to_remove) = {}
        /\ FieldValues(files.diff.content.ingredients, "slug") \cap Range(local.to_remove) = {}
        /\ BackupIsOriginal

\* the rewritten diff holds an alias of an ingredient that was linked and removed
C29_DanglingAlias ==
    /\ Rewritten
    /\ AliasSlugsOnDisk \cap Range(local.to_remove) # {}

\* an entry of a linked ingredient was pointed at the existing ingredient
C29_EntryRepointed ==
    /\ Rewritten
    /\ BackupIsOriginal
    /\ \E k \in DOMAIN files.diff.content.entries :
           /\ local.started.diff.content.entries[k].ingredient_slug \in Range(local.to_remove)
           /\ files.diff.content.entries[k].ingredient_slug \in Range(local.linked_to)

\* the eligible aliases (English, normalized text longer than two characters) that
\* no candidate group of the result holds
Ungrouped ==
    LET eligible == NormalizedAliases(master.aliases)
    IN  {k \in DOMAIN eligible :
            \A g \in GroupSets(result) : eligible[k].original \notin g}

(***************************************************************************)
(* C30.  In find_similar_aliases every eligible alias belongs to at most   *)
(* one candidate group, every member of a group other than the alias that  *)
(* started it is similar to that alias strictly above the threshold, and   *)
(* no two groups receive one canonical name: no group is overwritten, so   *)
(* no alias that started a group and no alias it took is left ungrouped.   *)
(***************************************************************************)
C30_DisjointSeedGroups ==
    Clustered =>
        LET eligible == NormalizedAliases(master.aliases)
        IN  /\ \A k1, k2 \in DOMAIN result :
                   \A j1 \in DOMAIN result[k1].group : \A j2 \in DOMAIN result[k2].group :
                       result[k1].group[j1].original = result[k2].group[j2].original
                           => (k1 = k2 /\ j1 = j2)
            /\ \A k \in DOMAIN result :
                   /\ Len(result[k].group) > 1
                   /\ \E j \in DOMAIN eligible : result[k].group[1] = eligible[j]
                   /\ \A j \in 2..Len(result[k].group) :
                          /\ \E h \in DOMAIN eligible : result[k].group[j] = eligible[h]
                          /\ Above(ratio(result[k].group[1].normalized,
                                         result[k].group[j].normalized), ClusterThreshold)
            /\ \A k1, k2 \in DOMAIN result :
                   result[k1].canonical = result[k2].canonical => k1 = k2
            /\ \A i, j \in Ungrouped :
                   i < j => ~Above(ratio(eligible[i].normalized, eligible[j].normalized),
                                   ClusterThreshold)

\* the analysis formed two groups out of four eligible aliases, the second alias of
\* the corpus being similar to the first and to the third
C30_Witness ==
    /\ Clustered
    /\ Len(result) = 2
    /\ LET eligible == NormalizedAliases(master.aliases)
       IN  /\ Len(eligible) = 4
           /\ Above(ratio(eligible[1].normalized, eligible[2].normalized), ClusterThreshold)
           /\ Above(ratio(eligible[2].normalized, eligible[3].normalized), ClusterThreshold)

\* the analysis formed a group and left an eligible alias out of it
C30_LeftOut ==
    /\ Clustered
    /\ result # <<>>
    /\ Ungrouped # {}

====
